---- MODULE Spec2Model ----
(***************************************************************************)
(* Versioned holdings ledger, daily price sample store and valuation       *)
(* resolver of the portfolio tracker (src/backend/database.py).            *)
(*                                                                         *)
(* Scaling: REAL columns are modelled by naturals, timestamps by clock     *)
(* ticks (several ticks per second, several seconds per day), uuid4        *)
(* logical ids by fresh positive integers (the seeded dummy holding of     *)
(* src/seed_dummy_user.py has logical id 0), Python None / SQL NULL of a   *)
(* numeric field by None.                                                  *)
(***************************************************************************)
EXTENDS Integers, Sequences, FiniteSets, TLC

VARIABLES
    holdings,       \* table holdings: sequence of rows, row id = index
    price_history,  \* table price_history: set of rows, UNIQUE(ticker, date)
    now,            \* the wall clock, in ticks
    ret,            \* the last operation: its name, arguments and outcome
    n_updates,      \* per created logical id: successful update_holding calls
    pending,        \* add_price_history calls in flight, per caller
    last_write,     \* per (ticker, date): the last committed add_price_history
    valuation,      \* one evaluation of _calculate_holding_value
    price_history_hourly,  \* table price_history_hourly: set of rows, UNIQUE(ticker, timestamp)
    portfolio_snapshots,   \* table portfolio_snapshots: sequence of rows, row id = index
    updaters        \* update_holding calls in flight, per caller

\* the tables and calls that the ledger and the daily price store never touch
sideVars == <<price_history_hourly, portfolio_snapshots, updaters>>

vars == <<holdings, price_history, now, ret, n_updates, pending, last_write, valuation,
          price_history_hourly, portfolio_snapshots, updaters>>

----------------------------------------------------------------------------
(* Bounds of the model *)

MaxRows == 3          \* rows in table holdings
MaxClock == 3         \* last clock tick
TicksPerSecond == 2   \* clock ticks in one second
SecondsPerDay == 1    \* seconds in one calendar day (scaled)

None == -1

----------------------------------------------------------------------------
(* Time *)

Second(t) == t \div TicksPerSecond

Day(t) == Second(t) \div SecondsPerDay

\* datetime.isoformat() of the instant t as SQLite orders the text: the text of
\* a naive datetime is a proper prefix of that of the aware one ('+00:00'), and
\* sorts right before it
IsoNaive(t) == 2 * t

IsoAware(t) == 2 * t + 1

\* CURRENT_TIMESTAMP ('YYYY-MM-DD HH:MM:SS') and isoformat ('YYYY-MM-DDTHH:...')
\* texts: the day, the separator after it (' ' sorts before 'T'), the instant
SqlTimestamp(t) == [day |-> Day(t), sep |-> 0, tick |-> Second(t) * TicksPerSecond]

IsoTimestamp(t) == [day |-> Day(t), sep |-> 1, tick |-> t]

----------------------------------------------------------------------------
(* Strings: str.strip, str.upper, str.lower on the symbols of the model *)

Strip(s) ==
    CASE s = " "  -> ""
      [] s = " a" -> "a"
      [] s = " Cash " -> "Cash"
      [] OTHER -> s

Lower(s) ==
    CASE s = "A" -> "a"
      [] s = "B" -> "b"
      [] s = "Cash" -> "cash"
      [] s = "ETFs" -> "etfs"
      [] s = "Stock" -> "stock"
      [] OTHER -> s

normalize_category_name(category) ==
    IF category = "" THEN ""
    ELSE LET cleaned == Strip(category)
         IN  IF Lower(cleaned) \in {"etf", "etfs"} THEN "ETF" ELSE cleaned

----------------------------------------------------------------------------
(* Inputs of the operations *)

DefaultUser == "default"      \* holdings.user_id DEFAULT 'default'
DummyUser == "user_alex"      \* the user of src/seed_dummy_user.py
AnyUser == "None"             \* user_id=None: no user filter
DummyHoldingId == 0           \* 'holding_alex_001'

\* The payloads of create_holding / update_holding (HoldingCreate, HoldingUpdate)
Data(at, tk, lk, cat, sh, co, cp, contrib, tp, mpo, vo) ==
    [account_type |-> at, ticker |-> tk, lookup |-> lk, category |-> cat,
     shares |-> sh, cost |-> co, current_price |-> cp, contribution |-> contrib,
     track_price |-> tp, manual_price_override |-> mpo, value_override |-> vo]

DataSet ==
    { Data("TFSA", "A", "A",  "Stock",  2, 3, 5, None, TRUE,  FALSE, None),
      Data("RRSP", "A", " a", "ETFs",   1, 4, 2, 0,    TRUE,  FALSE, None),
      Data("TFSA", "B", "",   " Cash ", 3, 1, 1, 7,    TRUE,  TRUE,  None),
      Data("RRSP", "",  "A",  "Stock",  2, 2, 4, None, FALSE, FALSE, 9) }

NoData == Data("", "", "", "", 0, 0, 0, None, FALSE, FALSE, None)

\* One of the dummy_holdings of the seeding script (contribution equals cost)
DummyData == Data("TFSA", "A", "A", "Tech", 2, 6, 4, 6, TRUE, FALSE, None)

PriceTickers == {"A"}
Prices == {1}
CallerPrices == {1, 2}
Dates == 0 .. 1
CapturedAts == {0}

----------------------------------------------------------------------------
(* Price sample store, daily *)

PriceRow(ticker, price, date, updated_at) ==
    [ticker |-> ticker, price |-> price, date |-> date, updated_at |-> updated_at]

\* Mutant: ON CONFLICT(ticker, date) DO UPDATE SET price only
UpsertDaily_KeepsTimestamp(ph, ticker, price, date, updated_at) ==
    LET old == { r \in ph : r.ticker = ticker /\ r.date = date }
    IN  IF old = {} THEN ph \cup { PriceRow(ticker, price, date, updated_at) }
        ELSE (ph \ old) \cup { [r EXCEPT !.price = price] : r \in old }

\* INSERT ... ON CONFLICT(ticker, date) DO UPDATE SET price, updated_at
UpsertDaily(ph, ticker, price, date, updated_at) ==
    { r \in ph : ~(r.ticker = ticker /\ r.date = date) }
        \cup { PriceRow(ticker, price, date, updated_at) }

\* add_price_history(ticker, price, date_override, captured_at) called at
\* clock t; date_override and captured_at are None when not passed
add_price_history(ph, ticker, price, date_override, captured_at, t) ==
    LET at == IF captured_at = None THEN t ELSE captured_at
        date_str == IF date_override = None THEN Day(at) ELSE date_override
    IN  UpsertDaily(ph, ticker, price, date_str, IsoNaive(at))

\* data.get('lookup') or data.get('ticker')
SeedSymbol(data) == IF data.lookup # "" THEN data.lookup ELSE data.ticker

\* Mutant: the existence check is missing, the seed is always written
ensure_price_history_seed_Unchecked(ph, ticker, price, track_price, manual_price_override, t) ==
    IF ~track_price \/ manual_price_override THEN ph
    ELSE LET tk == Strip(ticker)
         IN  IF tk = "" THEN ph
             ELSE add_price_history(ph, tk, price, None, None, t)

\* ensure_price_history_seed(ticker, price, track_price, manual_price_override)
ensure_price_history_seed(ph, ticker, price, track_price, manual_price_override, t) ==
    IF ~track_price \/ manual_price_override THEN ph
    ELSE LET tk == Strip(ticker)
         IN  IF tk = "" THEN ph
             ELSE IF \E r \in ph : r.ticker = tk THEN ph
             ELSE add_price_history(ph, tk, price, None, None, t)

----------------------------------------------------------------------------
(* Holding ledger *)

Rows == { holdings[i] : i \in 1 .. Len(holdings) }

\* uuid.uuid4(): a logical id no row carries yet
NewHoldingId ==
    CHOOSE h \in 1 .. Len(holdings) + 1 : \A r \in Rows : r.holding_id # h

\* Mutant: `provided_contribution or shares * cost`, which drops a supplied 0
Contribution_Truthy(data) ==
    IF data.contribution # None /\ data.contribution # 0
    THEN data.contribution ELSE data.shares * data.cost

\* provided_contribution if provided_contribution is not None else shares * cost
Contribution(data) ==
    IF data.contribution # None THEN data.contribution ELSE data.shares * data.cost

\* The row the INSERT of create_holding / update_holding stores: columns not
\* listed take their defaults (id AUTOINCREMENT, last_updated CURRENT_TIMESTAMP,
\* is_deleted FALSE, user_id 'default')
NewRow(holding_id, data, t) ==
    [id |-> Len(holdings) + 1,
     holding_id |-> holding_id,
     account_type |-> data.account_type,
     ticker |-> data.ticker,
     category |-> normalize_category_name(data.category),
     lookup |-> data.lookup,
     shares |-> data.shares,
     cost |-> data.cost,
     current_price |-> data.current_price,
     contribution |-> Contribution(data),
     last_updated |-> SqlTimestamp(t),
     is_deleted |-> FALSE,
     track_price |-> data.track_price,
     manual_price_override |-> data.manual_price_override,
     value_override |-> data.value_override,
     user_id |-> DefaultUser]

\* SELECT holding_id, MAX(id) FROM holdings WHERE is_deleted = FALSE GROUP BY holding_id
LatestIds ==
    { r.id : r \in { x \in Rows : ~x.is_deleted /\
                       \A y \in Rows : (y.holding_id = x.holding_id /\ ~y.is_deleted)
                                           => y.id <= x.id } }

NullPrice == PriceRow("", None, None, None)

\* get_all_holdings(user_id): the rows of the result, each with the price row
\* the LEFT JOIN attached to it (NullPrice when none matched)
get_all_holdings(user_id) ==
    LET Selected == { h \in Rows : /\ h.id \in LatestIds
                                   /\ ~h.is_deleted
                                   /\ (user_id # AnyUser => h.user_id = user_id) }
        Matches(h) ==
            { ph \in price_history :
                /\ ph.ticker = h.lookup
                /\ \A ph2 \in price_history :
                       ph2.ticker = h.lookup => ph2.updated_at <= ph.updated_at }
        Joined(h) == IF Matches(h) = {} THEN {NullPrice} ELSE Matches(h)
    IN  { j \in [h : Selected, ph : price_history \cup {NullPrice}] : j.ph \in Joined(j.h) }

\* get_holding_history(holding_id): the rows of the result
get_holding_history(holding_id) == { r \in Rows : r.holding_id = holding_id }

\* SELECT holding_id FROM holdings WHERE id = ?
Resolves(id) == id \in 1 .. Len(holdings)

Ret(op, id, data, status, result) ==
    [op |-> op, id |-> id, data |-> data, status |-> status, result |-> result]

----------------------------------------------------------------------------
(* Operations of the ledger and of the price store, one step each *)

NoCall == PriceRow("", None, None, None)
Callers == {1, 2}

\* an update_holding caller that is not inside a call
NoUpdate ==
    [pc |-> "idle", id |-> 0, data |-> NoData, holding_id |-> None,
     rows_at_read |-> 0, result |-> 0]

Init ==
    /\ holdings = <<>>
    /\ price_history = {}
    /\ now = 0
    /\ ret = Ret("init", 0, NoData, "ok", 0)
    /\ n_updates = <<>>
    /\ pending = [c \in Callers |-> NoCall]
    /\ last_write = [k \in {} |-> [row |-> NoCall, rewritten |-> FALSE]]
    /\ valuation = [holding |-> NoData, historical_price |-> None, done |-> FALSE, value |-> 0]
    /\ price_history_hourly = {}
    /\ portfolio_snapshots = <<>>
    /\ updaters = [c \in Callers |-> NoUpdate]

\* create_holding(data)
CreateHolding(data) ==
    /\ Len(holdings) < MaxRows
    /\ holdings' = Append(holdings, NewRow(NewHoldingId, data, now))
    /\ price_history' = ensure_price_history_seed(price_history, SeedSymbol(data),
                            data.current_price, data.track_price,
                            data.manual_price_override, now)
    /\ n_updates' = Append(n_updates, 0)
    /\ ret' = Ret("create", 0, data, "ok", Len(holdings) + 1)
    /\ UNCHANGED <<now, pending, last_write, valuation, sideVars>>

\* Mutant: the new version is stored under a fresh logical id
UpdateHolding_FreshId(id, data) ==
    /\ Resolves(id)
    /\ Len(holdings) < MaxRows
    /\ holdings' = Append(holdings, NewRow(NewHoldingId, data, now))
    /\ n_updates' = Append(n_updates, 0)
    /\ price_history' = ensure_price_history_seed(price_history, SeedSymbol(data),
                            data.current_price, data.track_price,
                            data.manual_price_override, now)
    /\ ret' = Ret("update", id, data, "ok", Len(holdings) + 1)
    /\ UNCHANGED <<now, pending, last_write, valuation, sideVars>>

\* update_holding(id, data) on a row id that resolves
UpdateHolding(id, data) ==
    /\ Resolves(id)
    /\ Len(holdings) < MaxRows
    /\ LET holding_id == holdings[id].holding_id
       IN  /\ holdings' = Append(holdings, NewRow(holding_id, data, now))
           /\ n_updates' = IF holding_id = DummyHoldingId THEN n_updates
                           ELSE [n_updates EXCEPT ![holding_id] = @ + 1]
    /\ price_history' = ensure_price_history_seed(price_history, SeedSymbol(data),
                            data.current_price, data.track_price,
                            data.manual_price_override, now)
    /\ ret' = Ret("update", id, data, "ok", Len(holdings) + 1)
    /\ UNCHANGED <<now, pending, last_write, valuation, sideVars>>

\* Mutant: the seed is written before the row id is looked up
UpdateNotFound_SeedsFirst(id, data) ==
    /\ ~Resolves(id)
    /\ price_history' = ensure_price_history_seed(price_history, SeedSymbol(data),
                            data.current_price, data.track_price,
                            data.manual_price_override, now)
    /\ ret' = Ret("update", id, NoData, "NotFound", 0)
    /\ UNCHANGED <<holdings, now, n_updates, pending, last_write, valuation, sideVars>>

\* update_holding(id, data) on a row id that does not resolve: ValueError
UpdateNotFound(id, data) ==
    /\ ~Resolves(id)
    /\ ret' = Ret("update", id, NoData, "NotFound", 0)
    /\ UNCHANGED <<holdings, price_history, now, n_updates, pending, last_write, valuation, sideVars>>

\* Mutant: UPDATE holdings SET is_deleted = TRUE, the WHERE clause lost
MarkDeleted_Everything(rows, holding_id) ==
    [i \in 1 .. Len(rows) |-> [rows[i] EXCEPT !.is_deleted = TRUE]]

\* UPDATE holdings SET is_deleted = TRUE WHERE holding_id = ?
MarkDeleted(rows, holding_id) ==
    [i \in 1 .. Len(rows) |->
        IF rows[i].holding_id = holding_id
        THEN [rows[i] EXCEPT !.is_deleted = TRUE] ELSE rows[i]]

\* Mutant: only the version named by the row id is flagged (WHERE id = ?)
DeleteHolding_OneVersion(id) ==
    /\ Resolves(id)
    /\ holdings' = [holdings EXCEPT ![id].is_deleted = TRUE]
    /\ ret' = Ret("delete", id, NoData, "ok", 0)
    /\ UNCHANGED <<price_history, now, n_updates, pending, last_write, valuation, sideVars>>

\* delete_holding(id) on a row id that resolves
DeleteHolding(id) ==
    /\ Resolves(id)
    /\ holdings' = MarkDeleted(holdings, holdings[id].holding_id)
    /\ ret' = Ret("delete", id, NoData, "ok", 0)
    /\ UNCHANGED <<price_history, now, n_updates, pending, last_write, valuation, sideVars>>

\* delete_holding(id) on a row id that does not resolve: ValueError
DeleteNotFound(id) ==
    /\ ~Resolves(id)
    /\ ret' = Ret("delete", id, NoData, "NotFound", 0)
    /\ UNCHANGED <<holdings, price_history, now, n_updates, pending, last_write, valuation, sideVars>>

\* create_dummy_user_and_holdings(), for one of its holdings: the row carries
\* user_id 'user_alex'; the price row is written with INSERT OR IGNORE
SeedDummyHolding ==
    /\ Len(holdings) < MaxRows
    /\ holdings' = Append(holdings,
           [NewRow(DummyHoldingId, DummyData, now) EXCEPT
               !.category = DummyData.category, !.last_updated = IsoTimestamp(now),
               !.user_id = DummyUser])
    /\ price_history' =
           IF \E r \in price_history : r.ticker = DummyData.lookup /\ r.date = Day(now)
           THEN price_history
           ELSE price_history \cup
                    {PriceRow(DummyData.lookup, DummyData.current_price, Day(now), IsoAware(now))}
    /\ ret' = Ret("seed_dummy", 0, DummyData, "ok", Len(holdings) + 1)
    /\ UNCHANGED <<now, n_updates, pending, last_write, valuation, sideVars>>

\* add_price_history(ticker, price, date_override, captured_at), e.g. by
\* capture_portfolio_prices, /api/fetch-price or the backfill
AddPriceHistory(ticker, price, date_override, captured_at) ==
    /\ price_history' = add_price_history(price_history, ticker, price,
                                          date_override, captured_at, now)
    /\ ret' = Ret("add_price", 0, NoData, "ok", 0)
    /\ UNCHANGED <<holdings, now, n_updates, pending, last_write, valuation, sideVars>>

\* the wall clock advances
Tick ==
    /\ now < MaxClock
    /\ now' = now + 1
    /\ ret' = Ret("tick", 0, NoData, "ok", 0)
    /\ UNCHANGED <<holdings, price_history, n_updates, pending, last_write, valuation, sideVars>>

NotFoundIds == {0, Len(holdings) + 1}

Next ==
    \/ \E data \in DataSet : CreateHolding(data)
    \/ \E id \in 1 .. MaxRows, data \in DataSet : UpdateHolding(id, data)
    \/ \E id \in NotFoundIds, data \in DataSet : UpdateNotFound(id, data)
    \/ \E id \in 1 .. MaxRows : DeleteHolding(id)
    \/ \E id \in NotFoundIds : DeleteNotFound(id)

Spec == Init /\ [][Next]_vars

\* The ledger beside the seeded dummy user and direct price writes
ViewDataSet == { d \in DataSet : d.lookup = "A" /\ d.track_price }

NextView ==
    \/ \E data \in ViewDataSet : CreateHolding(data)
    \/ \E id \in 1 .. MaxRows, data \in ViewDataSet : UpdateHolding(id, data)
    \/ \E id \in 1 .. MaxRows : DeleteHolding(id)
    \/ SeedDummyHolding
    \/ \E ticker \in PriceTickers, price \in Prices,
          date_override \in Dates, captured_at \in CapturedAts :
            AddPriceHistory(ticker, price, date_override, captured_at)
    \/ Tick

SpecView == Init /\ [][NextView]_vars

----------------------------------------------------------------------------
(* The price store under concurrent callers of add_price_history: a call first
   reads the clock and formats its key (lines 481-482), then executes its one
   INSERT ... ON CONFLICT statement, which SQLite commits atomically *)

\* captured_at = captured_at or datetime.utcnow(); date_str = date_override or ...
BeginAddPrice(c, ticker, price, date_override, captured_at) ==
    /\ pending[c] = NoCall
    /\ LET at == IF captured_at = None THEN now ELSE captured_at
           date_str == IF date_override = None THEN Day(at) ELSE date_override
       IN  pending' = [pending EXCEPT ![c] = PriceRow(ticker, price, date_str, IsoNaive(at))]
    /\ UNCHANGED <<holdings, price_history, now, ret, n_updates, last_write, valuation, sideVars>>

\* cursor.execute(INSERT ...); conn.commit()
CommitAddPrice(c) ==
    /\ pending[c] # NoCall
    /\ LET p == pending[c]
           key == <<p.ticker, p.date>>
       IN  /\ price_history' = UpsertDaily(price_history, p.ticker, p.price, p.date, p.updated_at)
           /\ last_write' = [k \in DOMAIN last_write \cup {key} |->
                                IF k = key
                                THEN [row |-> p, rewritten |-> key \in DOMAIN last_write]
                                ELSE last_write[k]]
    /\ pending' = [pending EXCEPT ![c] = NoCall]
    /\ UNCHANGED <<holdings, now, ret, n_updates, valuation, sideVars>>

\* the wall clock advances while calls are in flight
TickPrice ==
    /\ now < MaxClock
    /\ now' = now + 1
    /\ UNCHANGED <<holdings, price_history, ret, n_updates, pending, last_write, valuation, sideVars>>

NextPrice ==
    \/ \E c \in Callers, ticker \in PriceTickers, price \in CallerPrices,
          date_override \in Dates \cup {None}, captured_at \in CapturedAts \cup {None} :
            BeginAddPrice(c, ticker, price, date_override, captured_at)
    \/ \E c \in Callers : CommitAddPrice(c)
    \/ TickPrice

SpecPrice == Init /\ [][NextPrice]_vars

----------------------------------------------------------------------------
(* The seed of a create or update beside direct price writes *)

\* the seeding tail of create_holding / update_holding (lines 372-377, 432-437)
EnsureSeed(data) ==
    /\ price_history' = ensure_price_history_seed(price_history, SeedSymbol(data),
                            data.current_price, data.track_price,
                            data.manual_price_override, now)
    /\ ret' = Ret("seed", 0, data, "ok", 0)
    /\ UNCHANGED <<holdings, now, n_updates, pending, last_write, valuation, sideVars>>

SeedDataSet ==
    DataSet \cup
    { Data("TFSA", "A", "A", "Stock", 1, 1, 3, None, TRUE, FALSE, None),
      Data("TFSA", "A", "A", "Stock", 1, 1, 3, None, TRUE, TRUE,  None),
      Data("TFSA", "B", " ", "Stock", 1, 1, 3, None, TRUE, FALSE, None) }

SeedTickers == {"A", " a"}

NextSeed ==
    \/ \E data \in SeedDataSet : EnsureSeed(data)
    \/ \E ticker \in SeedTickers, price \in Prices,
          date_override \in Dates \cup {None}, captured_at \in CapturedAts \cup {None} :
            AddPriceHistory(ticker, price, date_override, captured_at)
    \/ Tick

SpecSeed == Init /\ [][NextSeed]_vars

----------------------------------------------------------------------------
(* Valuation resolver *)

\* category == 'cash' or (not ticker and not lookup), each field stripped
_is_cash_holding(holding) ==
    LET category == Lower(Strip(holding.category))
        ticker == Strip(holding.ticker)
        lookup == Strip(holding.lookup)
    IN  category = "cash" \/ (ticker = "" /\ lookup = "")

\* Mutant: `if value_override:`, which ignores an override of 0
_calculate_holding_value_Truthy(holding, historical_price) ==
    IF holding.value_override # None /\ holding.value_override # 0
    THEN holding.value_override
    ELSE LET use_history_price ==
                 ~holding.manual_price_override /\ ~_is_cash_holding(holding)
             effective_price ==
                 IF use_history_price /\ historical_price # None
                 THEN historical_price ELSE holding.current_price
         IN  holding.shares * effective_price

\* _calculate_holding_value(holding, historical_price)
_calculate_holding_value(holding, historical_price) ==
    IF holding.value_override # None THEN holding.value_override
    ELSE LET use_history_price ==
                 ~holding.manual_price_override /\ ~_is_cash_holding(holding)
             effective_price ==
                 IF use_history_price /\ historical_price # None
                 THEN historical_price ELSE holding.current_price
         IN  holding.shares * effective_price

\* the holdings and historical prices the resolver is evaluated on
ValueHoldings ==
    [value_override : {None, 0, 7}, shares : {0, 2}, current_price : {0, 5},
     manual_price_override : BOOLEAN, category : {"Stock", "Cash", " Cash "},
     ticker : {"", " ", "A"}, lookup : {"", " ", "A"}]

HistoricalPrices == {None, 0, 3}

InitValue ==
    /\ holdings = <<>>
    /\ price_history = {}
    /\ now = 0
    /\ ret = Ret("init", 0, NoData, "ok", 0)
    /\ n_updates = <<>>
    /\ pending = [c \in Callers |-> NoCall]
    /\ last_write = [k \in {} |-> [row |-> NoCall, rewritten |-> FALSE]]
    /\ valuation \in [holding : ValueHoldings, historical_price : HistoricalPrices,
                      done : {FALSE}, value : {0}]
    /\ price_history_hourly = {}
    /\ portfolio_snapshots = <<>>
    /\ updaters = [c \in Callers |-> NoUpdate]

Evaluate ==
    /\ ~valuation.done
    /\ valuation' = [valuation EXCEPT
           !.done = TRUE,
           !.value = _calculate_holding_value(valuation.holding, valuation.historical_price)]
    /\ UNCHANGED <<holdings, price_history, now, ret, n_updates, pending, last_write, sideVars>>

NextValue == Evaluate

SpecValue == InitValue /\ [][NextValue]_vars

----------------------------------------------------------------------------
(* Time-series reconstructor, daily *)

Upper(s) ==
    CASE s = "a" -> "A"
      [] s = "b" -> "B"
      [] OTHER -> s

\* (value or '').strip().upper()
_normalize_symbol(value) == Upper(Strip(value))

\* _get_holdings_snapshot(cursor, user_id): the latest non-deleted versions
_get_holdings_snapshot(user_id) ==
    { h \in Rows : /\ h.id \in LatestIds
                   /\ ~h.is_deleted
                   /\ (user_id # AnyUser => h.user_id = user_id) }

\* Mutant: the join on the latest version is missing, every version that is
\* not deleted is a backfill target
get_active_holdings_EveryVersion(user_id) ==
    { h \in Rows : /\ ~h.is_deleted
                   /\ h.track_price
                   /\ Strip(h.lookup) # ""
                   /\ (user_id # AnyUser => h.user_id = user_id) }

\* get_active_holdings(user_id): the latest non-deleted versions that are
\* price-tracked and have a lookup symbol (TRIM(h.lookup) != '')
get_active_holdings(user_id) ==
    { h \in Rows : /\ h.id \in LatestIds
                   /\ ~h.is_deleted
                   /\ h.track_price
                   /\ Strip(h.lookup) # ""
                   /\ (user_id # AnyUser => h.user_id = user_id) }

\* DATE(updated_at) of an isoformat text, naive or aware (+00:00)
PriceDate(updated_at) == Day(updated_at \div 2)

\* _get_price_rows(cursor, days) at clock t: WHERE updated_at >= DATE('now', '-N days')
_get_price_rows(days, t) ==
    { r \in price_history : PriceDate(r.updated_at) >= Day(t) - days }

PriceKey(row) == <<_normalize_symbol(row.ticker), PriceDate(row.updated_at)>>

\* _build_price_map(price_rows): the maps the loop can end with. A key keeps the
\* row of greatest updated_at; among rows tied on it the first one of the query's
\* order stays, and the ORDER BY leaves the order of tied rows open
_build_price_map(price_rows) ==
    LET keys == { PriceKey(r) : r \in price_rows }
        Kept(k) == { r \in price_rows :
                       /\ PriceKey(r) = k
                       /\ \A r2 \in price_rows :
                              PriceKey(r2) = k => r2.updated_at <= r.updated_at }
    IN  { m \in [keys -> price_rows] : \A k \in keys : m[k] \in Kept(k) }

RECURSIVE SumOver(_, _)
\* sum(value(x) for x in items), items without repetition
SumOver(items, value) ==
    IF items = {} THEN 0
    ELSE LET x == CHOOSE y \in items : TRUE
         IN  value[x] + SumOver(items \ {x}, value)

RECURSIVE Sorted(_)
\* sorted(keys)
Sorted(keys) ==
    IF keys = {} THEN <<>>
    ELSE LET least == CHOOSE k \in keys : \A k2 \in keys : k <= k2
         IN  <<least>> \o Sorted(keys \ {least})

\* history[-n:] when len(history) > n; history[-0:] is the whole list
LastN(history, n) ==
    IF Len(history) > n /\ n > 0
    THEN SubSeq(history, Len(history) - n + 1, Len(history))
    ELSE history

\* Mutant: a bucket without a sample of the symbol takes the symbol's sample of
\* another bucket instead of falling back to the stored price
BucketPrice_CarryOver(price_map, symbol, bucket) ==
    IF symbol = "" THEN None
    ELSE IF <<symbol, bucket>> \in DOMAIN price_map THEN price_map[<<symbol, bucket>>].price
    ELSE IF \E k \in DOMAIN price_map : k[1] = symbol
         THEN price_map[CHOOSE k \in DOMAIN price_map : k[1] = symbol].price
    ELSE None

\* price_map.get((symbol, key)) if symbol else None; its price, None without entry
BucketPrice(price_map, symbol, bucket) ==
    IF symbol = "" THEN None
    ELSE IF <<symbol, bucket>> \in DOMAIN price_map THEN price_map[<<symbol, bucket>>].price
    ELSE None

\* the loop of get_portfolio_history over sorted_dates, for one price map
DailyTotals(snapshot, price_map) ==
    LET sorted_dates == Sorted({ k[2] : k \in DOMAIN price_map })
        Value(date_key) ==
            SumOver(snapshot, [holding \in snapshot |->
                _calculate_holding_value(holding,
                    BucketPrice(price_map, _normalize_symbol(holding.lookup), date_key))])
    IN  [i \in 1 .. Len(sorted_dates) |->
            [bucket |-> sorted_dates[i], value |-> Value(sorted_dates[i])]]

\* get_portfolio_history(days) at clock t: the lists it can return
get_portfolio_history(days, t) ==
    LET snapshot == _get_holdings_snapshot(AnyUser)
        price_rows == _get_price_rows(days, t)
    IN  IF price_rows = {} THEN { <<>> }
        ELSE { LastN(DailyTotals(snapshot, m), days) : m \in _build_price_map(price_rows) }

----------------------------------------------------------------------------
(* Price sample store, hourly *)

HourlyRow(ticker, price, timestamp) ==
    [ticker |-> ticker, price |-> price, timestamp |-> timestamp]

\* timestamp.replace(microsecond=0)
Truncate(t) == Second(t) * TicksPerSecond

\* INSERT ... ON CONFLICT(ticker, timestamp) DO UPDATE SET price
UpsertHourly(phh, ticker, price, ts) ==
    { r \in phh : ~(r.ticker = ticker /\ r.timestamp = ts) }
        \cup { HourlyRow(ticker, price, ts) }

\* Mutant: the timestamp is stored and keyed with its sub-second part
add_price_history_hourly_Untruncated(phh, ticker, price, timestamp, t) ==
    LET at == IF timestamp = None THEN t ELSE timestamp
    IN  UpsertHourly(phh, ticker, price, at)

\* add_price_history_hourly(ticker, price, timestamp) called at clock t;
\* timestamp is None when not passed
add_price_history_hourly(phh, ticker, price, timestamp, t) ==
    LET at == IF timestamp = None THEN t ELSE timestamp
    IN  UpsertHourly(phh, ticker, price, Truncate(at))

\* the prices the store holds for a ticker in the second of an instant
HourlyPricesAt(ticker, at) ==
    { r.price : r \in { x \in price_history_hourly :
                          x.ticker = ticker /\ Second(x.timestamp) = Second(at) } }

\* add_price_history_hourly(ticker, price, timestamp), e.g. by capture_portfolio_prices;
\* the record of the call notes the prices held for the second before it
AddPriceHistoryHourly(ticker, price, timestamp) ==
    /\ price_history_hourly' = add_price_history_hourly(price_history_hourly, ticker,
                                                        price, timestamp, now)
    /\ LET at == IF timestamp = None THEN now ELSE timestamp
       IN  ret' = Ret("add_price_hourly", 0,
                      [ticker |-> ticker, price |-> price, timestamp |-> at,
                       previous |-> HourlyPricesAt(ticker, at)], "ok", 0)
    /\ UNCHANGED <<holdings, price_history, now, n_updates, pending, last_write, valuation,
                   portfolio_snapshots, updaters>>

----------------------------------------------------------------------------
(* Time-series reconstructor, hourly (an hour is scaled to one second of the
   model's clock) *)

\* _get_price_rows_hourly(cursor, hours) at clock t: WHERE timestamp >=
\* DATETIME('now', '-N hours'), a comparison of the isoformat text of the row
\* ('...T...') with the text 'YYYY-MM-DD HH:MM:SS': on the cut-off's own day
\* every row passes, since 'T' sorts after ' '
_get_price_rows_hourly(hours, t) ==
    { r \in price_history_hourly :
        Day(r.timestamp) >= Day(t - hours * TicksPerSecond) }

HourlyKey(row) == <<_normalize_symbol(row.ticker), row.timestamp>>

\* the price_map loop of get_portfolio_history_hourly: the last row of a key in
\* the query's order stays; rows of one key share their timestamp, and ORDER BY
\* timestamp leaves their order open
_build_price_map_hourly(price_rows) ==
    LET keys == { HourlyKey(r) : r \in price_rows }
    IN  { m \in [keys -> price_rows] : \A k \in keys : HourlyKey(m[k]) = k }

\* the loop of get_portfolio_history_hourly over unique_timestamps
HourlyTotals(snapshot, price_map) ==
    LET unique_timestamps == Sorted({ k[2] : k \in DOMAIN price_map })
        Value(ts) ==
            SumOver(snapshot, [holding \in snapshot |->
                _calculate_holding_value(holding,
                    BucketPrice(price_map, _normalize_symbol(holding.lookup), ts))])
    IN  [i \in 1 .. Len(unique_timestamps) |->
            [bucket |-> unique_timestamps[i], value |-> Value(unique_timestamps[i])]]

\* get_portfolio_history_hourly(hours) at clock t: the lists it can return
get_portfolio_history_hourly(hours, t) ==
    LET snapshot == _get_holdings_snapshot(AnyUser)
        price_rows == _get_price_rows_hourly(hours, t)
    IN  IF price_rows = {} THEN { <<>> }
        ELSE { LastN(HourlyTotals(snapshot, m), hours) :
                 m \in _build_price_map_hourly(price_rows) }

----------------------------------------------------------------------------
(* Time-series reconstructor, per account type *)

\* the loops of get_account_type_history(_hourly) over the bucket keys, for one
\* price map: history_by_account, a list per account type of the snapshot
AccountTotals(snapshot, price_map) ==
    LET buckets == Sorted({ k[2] : k \in DOMAIN price_map })
        types == { h.account_type : h \in snapshot }
        Of(a) == { h \in snapshot : h.account_type = a }
        Value(a, b) ==
            SumOver(Of(a), [holding \in Of(a) |->
                _calculate_holding_value(holding,
                    BucketPrice(price_map, _normalize_symbol(holding.lookup), b))])
    IN  [a \in types |->
            [i \in 1 .. Len(buckets) |-> [bucket |-> buckets[i], value |-> Value(a, buckets[i])]]]

\* the per-account lists, each cut to its last n entries
LastNEach(history_by_account, n) ==
    [a \in DOMAIN history_by_account |-> LastN(history_by_account[a], n)]

\* get_account_type_history(days) at clock t: the results it can return
get_account_type_history(days, t) ==
    LET snapshot == _get_holdings_snapshot(AnyUser)
        price_rows == _get_price_rows(days, t)
    IN  IF price_rows = {} THEN { <<>> }
        ELSE { LastNEach(AccountTotals(snapshot, m), days) :
                 m \in _build_price_map(price_rows) }

\* the price_map loop of get_account_type_history_hourly: the key is the
\* ticker as stored and the timestamp, which the table keeps unique
_build_price_map_hourly_by_account(price_rows) ==
    [k \in { <<r.ticker, r.timestamp>> : r \in price_rows } |->
        CHOOSE r \in price_rows : <<r.ticker, r.timestamp>> = k]

\* get_account_type_history_hourly(hours) at clock t
get_account_type_history_hourly(hours, t) ==
    LET snapshot == _get_holdings_snapshot(AnyUser)
        price_rows == _get_price_rows_hourly(hours, t)
    IN  IF price_rows = {} THEN { <<>> }
        ELSE { LastNEach(AccountTotals(snapshot,
                             _build_price_map_hourly_by_account(price_rows)), hours) }

----------------------------------------------------------------------------
(* The reconstructors beside the ledger and the two price stores *)

\* get_account_type_history(days)
GetAccountTypeHistory(days) ==
    /\ \E history \in get_account_type_history(days, now) :
           ret' = Ret("account_type_history", days, NoData, "ok", history)
    /\ UNCHANGED <<holdings, price_history, now, n_updates, pending, last_write, valuation,
                   sideVars>>

\* get_account_type_history_hourly(hours)
GetAccountTypeHistoryHourly(hours) ==
    /\ \E history \in get_account_type_history_hourly(hours, now) :
           ret' = Ret("account_type_history_hourly", hours, NoData, "ok", history)
    /\ UNCHANGED <<holdings, price_history, now, n_updates, pending, last_write, valuation,
                   sideVars>>

\* get_portfolio_history(days)
GetPortfolioHistory(days) ==
    /\ \E history \in get_portfolio_history(days, now) :
           ret' = Ret("portfolio_history", days, NoData, "ok", history)
    /\ UNCHANGED <<holdings, price_history, now, n_updates, pending, last_write, valuation,
                   sideVars>>

\* get_portfolio_history_hourly(hours)
GetPortfolioHistoryHourly(hours) ==
    /\ \E history \in get_portfolio_history_hourly(hours, now) :
           ret' = Ret("portfolio_history_hourly", hours, NoData, "ok", history)
    /\ UNCHANGED <<holdings, price_history, now, n_updates, pending, last_write, valuation,
                   sideVars>>

\* def get_portfolio_history(days=30), get_account_type_history(days=30),
\* get_portfolio_history_hourly(hours=168), get_account_type_history_hourly(hours=168):
\* the number of arguments each of them takes
ReconstructorParameters == 1

Granularities == {"day", "hour"}

\* api_get_portfolio_history(days, hours, granularity, user_id): the responses.
\* The reconstructors are called with (window, user_id); a call with more
\* arguments than the function takes raises TypeError, which the handler turns
\* into HTTPException(500)
api_get_portfolio_history(window, granularity, user_id, t) ==
    LET arguments == <<window, user_id>>
    IN  IF Len(arguments) > ReconstructorParameters
        THEN { [status |-> "error", body |-> 0] }
        ELSE IF granularity = "hour"
        THEN { [status |-> "ok",
                body |-> [history |-> h, account_type_history |-> a,
                          granularity |-> granularity, window |-> window]] :
                 h \in get_portfolio_history_hourly(window, t),
                 a \in get_account_type_history_hourly(window, t) }
        ELSE { [status |-> "ok",
                body |-> [history |-> h, account_type_history |-> a,
                          granularity |-> granularity, window |-> window]] :
                 h \in get_portfolio_history(window, t),
                 a \in get_account_type_history(window, t) }

\* GET /api/portfolio-history
ApiGetPortfolioHistory(window, granularity, user_id) ==
    /\ \E response \in api_get_portfolio_history(window, granularity, user_id, now) :
           ret' = Ret("api_portfolio_history", window,
                      [granularity |-> granularity, user_id |-> user_id],
                      response.status, response.body)
    /\ UNCHANGED <<holdings, price_history, now, n_updates, pending, last_write, valuation,
                   sideVars>>

\* the first tick of the day after day 0
NextDay == TicksPerSecond * SecondsPerDay

HistoryDataSet == { d \in DataSet : d.track_price }
HistoryInstants == {0, NextDay}
HistoryPrices == {1}
HistoryTickers == {" a"}
Windows == {1, 2}

NextHistory ==
    \/ \E data \in HistoryDataSet : CreateHolding(data)
    \/ \E id \in 1 .. MaxRows, data \in HistoryDataSet : UpdateHolding(id, data)
    \/ \E id \in 1 .. MaxRows : DeleteHolding(id)
    \/ \E ticker \in PriceTickers, price \in HistoryPrices,
          date_override \in {None, 1}, captured_at \in HistoryInstants :
            AddPriceHistory(ticker, price, date_override, captured_at)
    \/ \E ticker \in HistoryTickers, price \in HistoryPrices, timestamp \in HistoryInstants :
            AddPriceHistoryHourly(ticker, price, timestamp)
    \/ \E days \in Windows : GetPortfolioHistory(days)
    \/ \E hours \in Windows : GetPortfolioHistoryHourly(hours)

SpecHistory == Init /\ [][NextHistory]_vars

----------------------------------------------------------------------------
(* Snapshot store *)

MaxSnapshots == 2     \* rows in table portfolio_snapshots

\* a / b of a float division, kept exact
Fraction(a, b) == [num |-> a, den |-> b]

\* main._is_cash_holding: only the category is stripped
_is_cash_holding_main(holding) ==
    Lower(Strip(holding.category)) = "cash" \/ (holding.ticker = "" /\ holding.lookup = "")

\* enrich_holdings_with_calculations: the 'current_price' of an enriched row of
\* get_all_holdings, i.e. its latest_price where the price history is used
EnrichedPrice(j) ==
    LET latest_price == j.ph.price
        use_price_history == /\ ~j.h.manual_price_override
                             /\ ~_is_cash_holding_main(j.h)
                             /\ latest_price # None
    IN  IF use_price_history THEN latest_price ELSE j.h.current_price

\* calculate_portfolio_stats(enriched_holdings), over the rows of get_all_holdings
calculate_portfolio_stats(rows) ==
    IF rows = {}
    THEN [total_value |-> 0, total_cost |-> 0, total_gain |-> 0,
          total_gain_percent |-> Fraction(0, 1), holdings_count |-> 0]
    ELSE LET total_value == SumOver(rows, [j \in rows |-> j.h.shares * EnrichedPrice(j)])
             total_contribution == SumOver(rows, [j \in rows |-> j.h.contribution])
             total_gain == total_value - total_contribution
         IN  [total_value |-> total_value,
              total_cost |-> total_contribution,
              total_gain |-> total_gain,
              total_gain_percent |-> IF total_contribution > 0
                                     THEN Fraction(total_gain * 100, total_contribution)
                                     ELSE Fraction(0, 1),
              holdings_count |-> Cardinality(rows)]

Snapshots == { portfolio_snapshots[i] : i \in 1 .. Len(portfolio_snapshots) }

\* Mutant: INSERT OR REPLACE on (user_id, captured_at): a capture in the second
\* of an earlier one of the user takes that row's place
add_portfolio_snapshot_Replacing(snaps, stats, captured_at, user_id, t) ==
    LET at == Truncate(IF captured_at = None THEN t ELSE captured_at)
        row(id) == [id |-> id, user_id |-> user_id, captured_at |-> at,
                    total_value |-> stats.total_value,
                    total_contribution |-> stats.total_cost,
                    total_gain |-> stats.total_gain,
                    total_gain_percent |-> stats.total_gain_percent]
        same == { i \in 1 .. Len(snaps) : snaps[i].user_id = user_id /\ snaps[i].captured_at = at }
    IN  IF same = {} THEN Append(snaps, row(Len(snaps) + 1))
        ELSE [i \in 1 .. Len(snaps) |-> IF i \in same THEN row(i) ELSE snaps[i]]

\* add_portfolio_snapshot(stats, captured_at, user_id) called at clock t;
\* captured_at is None when not passed
add_portfolio_snapshot(snaps, stats, captured_at, user_id, t) ==
    Append(snaps,
        [id |-> Len(snaps) + 1,
         user_id |-> user_id,
         captured_at |-> Truncate(IF captured_at = None THEN t ELSE captured_at),
         total_value |-> stats.total_value,
         total_contribution |-> stats.total_cost,
         total_gain |-> stats.total_gain,
         total_gain_percent |-> stats.total_gain_percent])

\* the lists a query can return for ORDER BY key ASC: every row once, keys
\* ascending, rows of equal key in any order
AscendingOrders(rows, key) ==
    { s \in [1 .. Cardinality(rows) -> rows] :
        /\ \A i, j \in DOMAIN s : i # j => s[i] # s[j]
        /\ \A i, j \in DOMAIN s : i < j => key[s[i]] <= key[s[j]] }

\* get_portfolio_snapshots_since(start_time, user_id); start_time None: no bound
get_portfolio_snapshots_since(start_time, user_id) ==
    LET rows == { r \in Snapshots :
                    /\ r.user_id = user_id
                    /\ start_time # None => r.captured_at >= start_time }
    IN  AscendingOrders(rows, [r \in rows |-> r.captured_at])

\* get_latest_portfolio_snapshot(user_id): ORDER BY captured_at DESC LIMIT 1
get_latest_portfolio_snapshot(user_id) ==
    { r \in Snapshots :
        /\ r.user_id = user_id
        /\ \A r2 \in Snapshots : r2.user_id = user_id => r2.captured_at <= r.captured_at }

\* Mutant: the query lacks the user filter
get_portfolio_snapshot_before_AnyUser(before, user_id) ==
    { r \in Snapshots :
        /\ r.captured_at <= before
        /\ \A r2 \in Snapshots : r2.captured_at <= before => r2.captured_at <= r.captured_at }

\* get_portfolio_snapshot_before(before, user_id): captured_at <= before,
\* ORDER BY captured_at DESC LIMIT 1
get_portfolio_snapshot_before(before, user_id) ==
    { r \in Snapshots :
        /\ r.user_id = user_id /\ r.captured_at <= before
        /\ \A r2 \in Snapshots : (r2.user_id = user_id /\ r2.captured_at <= before)
                                     => r2.captured_at <= r.captured_at }

----------------------------------------------------------------------------
(* Movement calculator. An optional value (a datetime or None, a float or
   None) is the set of its at most one value *)

Nothing == {}
Some(x) == {x}

\* the window of range '7d', scaled to one second of the model's clock
RangeWindow == TicksPerSecond

Ranges == {"7d", "all"}

\* _resolve_range_start(range_key) at clock t
_resolve_range_start(range_key, t) ==
    IF range_key = "all" THEN Nothing ELSE Some(t - RangeWindow)

\* get_portfolio_snapshots_since(start_time, user_id) with an optional start_time
SnapshotsSince(start_time, user_id) ==
    IF start_time = Nothing THEN get_portfolio_snapshots_since(None, user_id)
    ELSE UNION { get_portfolio_snapshots_since(st, user_id) : st \in start_time }

Point(snap) == [captured_at |-> snap.captured_at, total_value |-> snap.total_value]

\* api_portfolio_movement(range, user_id) called at clock t: the responses it
\* can give (the queries leave the order of snapshots of one second open)
api_portfolio_movement(range_key, user_id, t) ==
    LET start_time == _resolve_range_start(range_key, t)
        since == SnapshotsSince(start_time, user_id)
        latest == get_latest_portfolio_snapshot(user_id)
        snapshot_lists ==
            IF since # { <<>> } THEN since
            ELSE IF latest # {} THEN { <<l>> : l \in latest }
            ELSE { <<>> }
        current_stats == calculate_portfolio_stats(get_all_holdings(user_id))
        current_value == current_stats.total_value
        current_point == [captured_at |-> Truncate(t), total_value |-> current_value]
        Listed(snapshots) ==
            IF snapshots = <<>> THEN <<current_point>>
            ELSE [i \in DOMAIN snapshots |-> Point(snapshots[i])]
        WithBaseline(points) ==
            IF \E st \in start_time : points[1].captured_at > st
            THEN LET prior == UNION { get_portfolio_snapshot_before(st, user_id) :
                                        st \in start_time }
                 IN  IF prior = {} THEN { points }
                     ELSE { <<Point(p)>> \o points : p \in prior }
            ELSE { points }
        WithNow(points) ==
            IF points[Len(points)].captured_at # current_point.captured_at
            THEN Append(points, current_point) ELSE points
        contribution_value == current_stats.total_cost
        change == current_value - contribution_value
    IN  { [current_value |-> current_value,
           previous_value |-> contribution_value,
           change |-> change,
           change_percent |-> IF contribution_value # 0
                              THEN Some(Fraction(change * 100, contribution_value))
                              ELSE Nothing,
           points |-> [i \in DOMAIN points |->
                          [timestamp |-> points[i].captured_at,
                           value |-> points[i].total_value]],
           last_updated_at |-> IF snapshots # <<>>
                               THEN snapshots[Len(snapshots)].captured_at
                               ELSE current_point.captured_at]
          : <<snapshots, points>> \in
              UNION { { <<sn, WithNow(pts)>> : pts \in WithBaseline(Listed(sn)) }
                      : sn \in snapshot_lists } }

\* GET /api/portfolio-movement
Movement(range_key, user_id) ==
    /\ \E response \in api_portfolio_movement(range_key, user_id, now) :
           ret' = Ret("movement", 0, [range |-> range_key, user_id |-> user_id],
                      "ok", response)
    /\ UNCHANGED <<holdings, price_history, now, n_updates, pending, last_write, valuation,
                   sideVars>>

\* add_portfolio_snapshot(stats, captured_at, user_id) with the stats of the
\* ledger, as at the end of capture_portfolio_prices
AddPortfolioSnapshot(captured_at, user_id) ==
    /\ Len(portfolio_snapshots) < MaxSnapshots
    /\ portfolio_snapshots' =
           add_portfolio_snapshot(portfolio_snapshots,
               calculate_portfolio_stats(get_all_holdings(AnyUser)),
               captured_at, user_id, now)
    /\ ret' = Ret("add_snapshot", 0, [captured_at |-> captured_at, user_id |-> user_id],
                  "ok", Len(portfolio_snapshots) + 1)
    /\ UNCHANGED <<holdings, price_history, now, n_updates, pending, last_write, valuation,
                   price_history_hourly, updaters>>

\* the holding of the spec's worked example, and one of no contribution
MoveDataSet ==
    { Data("TFSA", "A", "A", "Stock", 10, 4, 5, 40, TRUE, FALSE, None),
      Data("RRSP", "A", " a", "ETFs", 1, 4, 2, 0, TRUE, FALSE, None) }

SnapshotUsers == {DefaultUser, DummyUser}

\* The movement beside the ledger, the seeded dummy user and direct price writes
NextMove ==
    \/ \E data \in MoveDataSet : CreateHolding(data)
    \/ \E id \in 1 .. MaxRows : DeleteHolding(id)
    \/ SeedDummyHolding
    \/ \E ticker \in PriceTickers, price \in Prices,
          date_override \in Dates, captured_at \in CapturedAts :
            AddPriceHistory(ticker, price, date_override, captured_at)
    \/ \E range_key \in Ranges, user_id \in SnapshotUsers : Movement(range_key, user_id)

SpecMove == Init /\ [][NextMove]_vars

\* The snapshot store beside every kind of operation, on a ledger of one row
SnapshotDataSet == { d \in MoveDataSet : d.contribution = 40 }
SnapshotPrices == {5}

NextSnapshot ==
    \/ \E data \in SnapshotDataSet : holdings = <<>> /\ CreateHolding(data)
    \/ DeleteHolding(1)
    \/ \E ticker \in PriceTickers, price \in SnapshotPrices :
            AddPriceHistory(ticker, price, None, None)
    \/ \E captured_at \in {None, MaxClock}, user_id \in SnapshotUsers :
            AddPortfolioSnapshot(captured_at, user_id)
    \/ \E range_key \in Ranges, user_id \in SnapshotUsers : Movement(range_key, user_id)
    \/ \E days \in Windows : GetPortfolioHistory(days)
    \/ Tick

SpecSnapshot == Init /\ [][NextSnapshot]_vars

----------------------------------------------------------------------------
(* update_holding by concurrent callers. Each caller runs the statements of
   update_holding on a connection of its own: the SELECT of the logical id, the
   INSERT with its commit, then ensure_price_history_seed and the return.
   rows_at_read records how many rows the table held at the SELECT *)

\* update_holding(id, data), SELECT holding_id FROM holdings WHERE id = ?
BeginUpdate(c, id, data) ==
    /\ updaters[c].pc \in {"idle", "done"}
    /\ Resolves(id)
    /\ updaters' = [updaters EXCEPT ![c] =
           [pc |-> "insert", id |-> id, data |-> data,
            holding_id |-> holdings[id].holding_id,
            rows_at_read |-> Len(holdings), result |-> 0]]
    /\ UNCHANGED <<holdings, price_history, now, ret, n_updates, pending, last_write,
                   valuation, price_history_hourly, portfolio_snapshots>>

\* Mutant: the version that was read is rewritten in place (UPDATE ... WHERE id = ?)
InsertUpdate_InPlace(c) ==
    /\ updaters[c].pc = "insert"
    /\ LET u == updaters[c]
       IN  /\ holdings' = [holdings EXCEPT ![u.id] =
                  [NewRow(u.holding_id, u.data, now) EXCEPT !.id = u.id]]
           /\ updaters' = [updaters EXCEPT ![c].pc = "seed", ![c].result = u.id]
    /\ UNCHANGED <<price_history, now, ret, n_updates, pending, last_write, valuation,
                   price_history_hourly, portfolio_snapshots>>

\* update_holding(id, data), INSERT INTO holdings ...; commit; cursor.lastrowid
InsertUpdate(c) ==
    /\ updaters[c].pc = "insert"
    /\ Len(holdings) < MaxRows
    /\ LET u == updaters[c]
       IN  /\ holdings' = Append(holdings, NewRow(u.holding_id, u.data, now))
           /\ n_updates' = IF u.holding_id = DummyHoldingId THEN n_updates
                           ELSE [n_updates EXCEPT ![u.holding_id] = @ + 1]
           /\ updaters' = [updaters EXCEPT ![c].pc = "seed",
                                           ![c].result = Len(holdings) + 1]
    /\ UNCHANGED <<price_history, now, ret, pending, last_write, valuation,
                   price_history_hourly, portfolio_snapshots>>

\* update_holding(id, data), ensure_price_history_seed(...); return new_holding_id
SeedUpdate(c) ==
    /\ updaters[c].pc = "seed"
    /\ LET u == updaters[c]
       IN  /\ price_history' = ensure_price_history_seed(price_history, SeedSymbol(u.data),
                                   u.data.current_price, u.data.track_price,
                                   u.data.manual_price_override, now)
           /\ ret' = Ret("update", u.id, u.data, "ok", u.result)
           /\ updaters' = [updaters EXCEPT ![c].pc = "done"]
    /\ UNCHANGED <<holdings, now, n_updates, pending, last_write, valuation,
                   price_history_hourly, portfolio_snapshots>>

\* the data each caller sends: caller 1 the worked example, caller 2 the other
UpdateData ==
    [c \in Callers |-> CHOOSE d \in MoveDataSet : (d.contribution = 40) <=> (c = 1)]

\* Concurrent updates beside creations and deletions
NextUpdate ==
    \/ \E data \in SnapshotDataSet : CreateHolding(data)
    \/ \E c \in Callers, id \in 1 .. MaxRows : BeginUpdate(c, id, UpdateData[c])
    \/ \E c \in Callers : InsertUpdate(c)
    \/ \E c \in Callers : SeedUpdate(c)
    \/ \E id \in 1 .. MaxRows : DeleteHolding(id)

SpecUpdate == Init /\ [][NextUpdate]_vars

----------------------------------------------------------------------------
(* Version history of a holding, as a list *)

\* the place of a last_updated text in the order of texts: the day first, then
\* the separator, then the instant
TimestampKey(ts) == (ts.day * 2 + ts.sep) * (MaxClock + 1) + ts.tick

\* get_holding_history(holding_id): the lists the query can return for
\* ORDER BY last_updated DESC, rows of equal last_updated in any order
HoldingHistoryOrders(holding_id) ==
    LET rows == get_holding_history(holding_id)
    IN  AscendingOrders(rows, [r \in rows |-> 0 - TimestampKey(r.last_updated)])

\* get_holding_history(holding_id)
GetHoldingHistory(holding_id) ==
    /\ \E history \in HoldingHistoryOrders(holding_id) :
           ret' = Ret("history", holding_id, NoData, "ok", history)
    /\ UNCHANGED <<holdings, price_history, now, n_updates, pending, last_write, valuation,
                   sideVars>>

\* The history read beside the writes of the ledger and the clock
NextVersions ==
    \/ \E data \in SnapshotDataSet : CreateHolding(data)
    \/ \E id \in 1 .. MaxRows, data \in MoveDataSet : UpdateHolding(id, data)
    \/ \E id \in 1 .. MaxRows : DeleteHolding(id)
    \/ \E holding_id \in 1 .. MaxRows : GetHoldingHistory(holding_id)
    \/ Tick

SpecVersions == Init /\ [][NextVersions]_vars

----------------------------------------------------------------------------
(* The hourly store under writes at every instant of the clock *)

HourlyTickers == {"A", " a"}
HourlyPrices == {1, 2}
HourlyInstants == 0 .. MaxClock

NextHourly ==
    \/ \E ticker \in HourlyTickers, price \in HourlyPrices,
          timestamp \in HourlyInstants \cup {None} :
            AddPriceHistoryHourly(ticker, price, timestamp)
    \/ Tick

SpecHourly == Init /\ [][NextHourly]_vars

----------------------------------------------------------------------------
(* The seed as part of create_holding and update_holding *)

AnchorDataSet == SeedDataSet \ DataSet

NextAnchor ==
    \/ \E data \in AnchorDataSet : CreateHolding(data)
    \/ \E id \in 1 .. MaxRows, data \in AnchorDataSet : UpdateHolding(id, data)
    \/ \E ticker \in SeedTickers, price \in Prices :
            AddPriceHistory(ticker, price, None, None)
    \/ Tick

SpecAnchor == Init /\ [][NextAnchor]_vars

----------------------------------------------------------------------------
(* Bounded reads of the price stores *)

\* LIMIT n of a result list
Limit(rows, n) == SubSeq(rows, 1, IF n < Len(rows) THEN n ELSE Len(rows))

\* get_price_history(ticker, days): SELECT date, price ... ORDER BY date DESC LIMIT ?
get_price_history(ticker, days) ==
    LET rows == { r \in price_history : r.ticker = ticker }
    IN  { Limit([i \in DOMAIN s |-> [date |-> s[i].date, price |-> s[i].price]], days) :
            s \in AscendingOrders(rows, [r \in rows |-> 0 - r.date]) }

\* get_price_history_hourly(ticker, hours): SELECT timestamp, price ...
\* ORDER BY timestamp ASC LIMIT ?
get_price_history_hourly(ticker, hours) ==
    LET rows == { r \in price_history_hourly : r.ticker = ticker }
    IN  { Limit([i \in DOMAIN s |-> [timestamp |-> s[i].timestamp, price |-> s[i].price]],
                hours) :
            s \in AscendingOrders(rows, [r \in rows |-> r.timestamp]) }

\* get_price_history(ticker, days)
GetPriceHistory(ticker, days) ==
    /\ \E history \in get_price_history(ticker, days) :
           ret' = Ret("price_history", days, [ticker |-> ticker], "ok", history)
    /\ UNCHANGED <<holdings, price_history, now, n_updates, pending, last_write, valuation,
                   sideVars>>

\* get_price_history_hourly(ticker, hours)
GetPriceHistoryHourly(ticker, hours) ==
    /\ \E history \in get_price_history_hourly(ticker, hours) :
           ret' = Ret("price_history_hourly", hours, [ticker |-> ticker], "ok", history)
    /\ UNCHANGED <<holdings, price_history, now, n_updates, pending, last_write, valuation,
                   sideVars>>

QueryLimits == {1, 2}

\* The bounded reads beside writes to both stores and the clock
NextQuery ==
    \/ \E ticker \in HourlyTickers, price \in Prices :
            AddPriceHistory(ticker, price, None, None)
    \/ \E ticker \in HourlyTickers, price \in Prices :
            AddPriceHistoryHourly(ticker, price, None)
    \/ \E ticker \in HourlyTickers, days \in QueryLimits : GetPriceHistory(ticker, days)
    \/ \E ticker \in HourlyTickers, hours \in QueryLimits :
            GetPriceHistoryHourly(ticker, hours)
    \/ Tick

SpecQuery == Init /\ [][NextQuery]_vars

----------------------------------------------------------------------------
(* The history endpoint beside the holdings of two users and both price stores *)

NextApiHistory ==
    \/ \E data \in SnapshotDataSet : CreateHolding(data)
    \/ SeedDummyHolding
    \/ \E ticker \in PriceTickers, price \in HistoryPrices :
            AddPriceHistory(ticker, price, None, None)
    \/ \E ticker \in PriceTickers, price \in HistoryPrices :
            AddPriceHistoryHourly(ticker, price, None)
    \/ \E window \in Windows, granularity \in Granularities, user_id \in SnapshotUsers :
            ApiGetPortfolioHistory(window, granularity, user_id)
    \/ \E days \in Windows : GetPortfolioHistory(days)
    \/ \E days \in Windows : GetAccountTypeHistory(days)
    \/ Tick

SpecApiHistory == Init /\ [][NextApiHistory]_vars

----------------------------------------------------------------------------
(* The four reconstructors beside holdings and samples whose symbols are
   written in different ways; the daily samples are the seeds of the holdings *)

SymbolDataSet == { d \in DataSet : d.track_price /\ ~d.manual_price_override }

NextSymbols ==
    \/ \E data \in SymbolDataSet : CreateHolding(data)
    \/ \E ticker \in HourlyTickers, price \in HistoryPrices :
            AddPriceHistoryHourly(ticker, price, None)
    \/ \E days \in Windows : GetPortfolioHistory(days)
    \/ \E days \in Windows : GetAccountTypeHistory(days)
    \/ \E hours \in Windows : GetPortfolioHistoryHourly(hours)
    \/ \E hours \in Windows : GetAccountTypeHistoryHourly(hours)
    \/ Tick

SpecSymbols == Init /\ [][NextSymbols]_vars

----------------------------------------------------------------------------
(* The cut of the series to the requested number of buckets, as the clock
   advances *)

SeriesWindows == {0, 1, 2}

NextSeries ==
    \/ \E data \in SymbolDataSet : CreateHolding(data)
    \/ \E ticker \in PriceTickers, price \in HistoryPrices :
            AddPriceHistory(ticker, price, None, None)
    \/ \E ticker \in PriceTickers, price \in HistoryPrices :
            AddPriceHistoryHourly(ticker, price, None)
    \/ \E days \in SeriesWindows : GetPortfolioHistory(days)
    \/ \E days \in SeriesWindows : GetAccountTypeHistory(days)
    \/ \E hours \in SeriesWindows : GetPortfolioHistoryHourly(hours)
    \/ Tick

SpecSeries == Init /\ [][NextSeries]_vars

----------------------------------------------------------------------------
(* The seed of a create or update beside concurrent callers of
   add_price_history: ensure_price_history_seed reads the store on one
   connection, closes it, and only then calls add_price_history, which reads
   the clock and executes its INSERT ... ON CONFLICT statement *)

\* no caller other than c is inside ensure_price_history_seed
OnlySeeder(c) == \A o \in Callers \ {c} : updaters[o].pc = "idle"

\* ensure_price_history_seed up to `conn.close()`: the early returns and the
\* SELECT 1 FROM price_history WHERE ticker = ? LIMIT 1
CheckSeed(c, data) ==
    /\ updaters[c].pc = "idle"
    /\ pending[c] = NoCall
    /\ OnlySeeder(c)
    /\ LET tk == Strip(SeedSymbol(data))
           exists == \E r \in price_history : r.ticker = tk
       IN  updaters' =
               IF ~data.track_price \/ data.manual_price_override \/ tk = "" \/ exists
               THEN updaters
               ELSE [updaters EXCEPT ![c] = [NoUpdate EXCEPT !.pc = "seed", !.data = data]]
    /\ ret' = Ret("seed_check", c, data, "ok", 0)
    /\ UNCHANGED <<holdings, price_history, now, n_updates, pending, last_write,
                   valuation, price_history_hourly, portfolio_snapshots>>

\* add_price_history(ticker, price) of the seed, up to its INSERT: the clock is
\* read and the key formatted
BeginSeed(c) ==
    /\ updaters[c].pc = "seed"
    /\ LET data == updaters[c].data
       IN  pending' = [pending EXCEPT ![c] =
               PriceRow(Strip(SeedSymbol(data)), data.current_price, Day(now), IsoNaive(now))]
    /\ updaters' = [updaters EXCEPT ![c].pc = "seed_write"]
    /\ ret' = Ret("seed_begin", c, updaters[c].data, "ok", 0)
    /\ UNCHANGED <<holdings, price_history, now, n_updates, last_write,
                   valuation, price_history_hourly, portfolio_snapshots>>

\* the INSERT ... ON CONFLICT of the seed and its commit
CommitSeed(c) ==
    /\ updaters[c].pc = "seed_write"
    /\ LET p == pending[c]
           key == <<p.ticker, p.date>>
       IN  /\ price_history' = UpsertDaily(price_history, p.ticker, p.price, p.date, p.updated_at)
           /\ last_write' = [k \in DOMAIN last_write \cup {key} |->
                                IF k = key
                                THEN [row |-> p, rewritten |-> key \in DOMAIN last_write]
                                ELSE last_write[k]]
    /\ pending' = [pending EXCEPT ![c] = NoCall]
    /\ updaters' = [updaters EXCEPT ![c] = NoUpdate]
    /\ ret' = Ret("seed_commit", c, updaters[c].data, "ok", 0)
    /\ UNCHANGED <<holdings, now, n_updates, valuation, price_history_hourly,
                   portfolio_snapshots>>

\* add_price_history of a caller that is not seeding, in its two steps
BeginUpsert(c, ticker, price) ==
    /\ updaters[c].pc = "idle"
    /\ BeginAddPrice(c, ticker, price, None, None)

CommitUpsert(c) ==
    /\ updaters[c].pc = "idle"
    /\ CommitAddPrice(c)

RaceDataSet == SeedDataSet \ DataSet

NextSeedRace ==
    \/ \E c \in Callers, data \in RaceDataSet : CheckSeed(c, data)
    \/ \E c \in Callers : BeginSeed(c)
    \/ \E c \in Callers : CommitSeed(c)
    \/ \E c \in Callers, ticker \in PriceTickers, price \in CallerPrices :
            BeginUpsert(c, ticker, price)
    \/ \E c \in Callers : CommitUpsert(c)
    \/ TickPrice

SpecSeedRace == Init /\ [][NextSeedRace]_vars

----------------------------------------------------------------------------
(* The live total beside holdings that carry a value override *)

\* enrich_holdings_with_calculations: the 'value' of one enriched holding,
\* `value_override if value_override is not None else shares * current_price`
EnrichedValue(j) ==
    IF j.h.value_override # None THEN j.h.value_override
    ELSE j.h.shares * EnrichedPrice(j)

TotalsDataSet == SnapshotDataSet \cup { d \in DataSet : d.value_override # None }

NextTotals ==
    \/ \E data \in TotalsDataSet : CreateHolding(data)
    \/ DeleteHolding(1)
    \/ \E ticker \in PriceTickers, price \in Prices : AddPriceHistory(ticker, price, None, None)
    \/ AddPortfolioSnapshot(None, DefaultUser)
    \/ \E range_key \in Ranges : Movement(range_key, DefaultUser)

SpecTotals == Init /\ [][NextTotals]_vars

----------------------------------------------------------------------------
(* Properties of the holding ledger *)

Users == {AnyUser, DefaultUser, DummyUser}

Succeeded(op) == ret.op = op /\ ret.status = "ok"

\* C1: after create, N updates and a delete of one logical holding, its history
\* holds exactly N+1 versions, all flagged deleted, and no listing of the active
\* holdings (with or without a user filter) contains a version of it.
C1_DeleteRetiresEveryVersion ==
    Succeeded("delete") =>
        LET hid == holdings[ret.id].holding_id
        IN  /\ hid # DummyHoldingId =>
                   Cardinality(get_holding_history(hid)) = n_updates[hid] + 1
            /\ \A r \in get_holding_history(hid) : r.is_deleted
            /\ \A u \in Users : \A j \in get_all_holdings(u) : j.h.holding_id # hid

C1_Witness ==
    /\ Succeeded("delete")
    /\ n_updates[holdings[ret.id].holding_id] = 2
    /\ Cardinality(get_holding_history(holdings[ret.id].holding_id)) = 3

\* C3 (as claimed): once a delete has flagged the versions of a logical id, every
\* version of that logical id stays flagged deleted and no listing of the active
\* holdings returns one, whatever operation follows.
C3_SoftDeleteIrreversible ==
    [][\A r \in Rows : r.is_deleted =>
          /\ \A i \in 1 .. Len(holdings') :
                 holdings'[i].holding_id = r.holding_id => holdings'[i].is_deleted
          /\ \A j \in get_all_holdings(AnyUser)' : j.h.holding_id # r.holding_id]_vars

\* C4: a successful update inserts exactly one version, under the logical id of
\* the version named by the row id, and returns its row id, which is greater
\* than every row id the ledger held before.
C4_UpdateAppendsOneVersion ==
    [][(ret'.op = "update" /\ ret'.status = "ok") =>
          /\ Len(holdings') = Len(holdings) + 1
          /\ \A i \in 1 .. Len(holdings) : holdings'[i] = holdings[i]
          /\ holdings'[Len(holdings')].holding_id = holdings[ret'.id].holding_id
          /\ holdings'[Len(holdings')].id = ret'.result
          /\ \A r \in Rows : r.id < ret'.result]_vars

\* an update through the row id of a version that was already superseded
C4_Witness ==
    /\ Succeeded("update")
    /\ \E r \in Rows : /\ r.holding_id = holdings[ret.id].holding_id
                       /\ ret.id < r.id
                       /\ r.id < ret.result
    /\ holdings[ret.result].holding_id = holdings[ret.id].holding_id

\* C5: no step removes a version or changes a stored field of one, except that
\* a successful delete sets the soft-delete flag, and only of the versions under
\* the logical id it targets.
C5_VersionsImmutable ==
    [][/\ Len(holdings') >= Len(holdings)
       /\ \A i \in 1 .. Len(holdings) :
            /\ [holdings'[i] EXCEPT !.is_deleted = holdings[i].is_deleted] = holdings[i]
            /\ holdings'[i].is_deleted # holdings[i].is_deleted =>
                   /\ ret'.op = "delete" /\ ret'.status = "ok"
                   /\ holdings[i].holding_id = holdings[ret'.id].holding_id]_vars

\* a delete that left the versions of another logical id untouched
C5_Witness ==
    /\ Succeeded("delete")
    /\ \E r \in Rows : ~r.is_deleted /\ r.holding_id # holdings[ret.id].holding_id
    /\ \E r \in Rows : r.is_deleted /\ r.contribution = 0

\* C6: an update or delete whose row id matches no version ends in NotFound and
\* changes neither the ledger nor the price store.
C6_NotFoundChangesNothing ==
    [][(ret'.op \in {"update", "delete"} /\ ret'.id \notin 1 .. Len(holdings)) =>
          /\ ret'.status = "NotFound"
          /\ holdings' = holdings
          /\ price_history' = price_history]_vars

C6_Witness ==
    /\ ret.op = "update" /\ ret.status = "NotFound"
    /\ ret.id = Len(holdings) + 1
    /\ Len(holdings) > 0
    /\ price_history = {}

\* C7: the stored contribution is the supplied one when one is supplied, 0
\* included, and shares x cost when none is.
C7_ContributionRule ==
    (ret.op \in {"create", "update"} /\ ret.status = "ok") =>
        LET stored == holdings[ret.result].contribution
        IN  /\ ret.data.contribution = 0 => stored = 0
            /\ ret.data.contribution > 0 => stored = ret.data.contribution
            /\ ret.data.contribution = None => stored = ret.data.shares * ret.data.cost

C7_Witness ==
    /\ Succeeded("update")
    /\ ret.data.contribution = 0
    /\ ret.data.shares * ret.data.cost > 0
    /\ holdings[ret.result].contribution = 0

\* C2 (as claimed): a listing of the active holdings holds exactly one row per
\* logical id with a non-deleted version, the one with the greatest row id among
\* them, never two rows of one logical id, and under a user filter only rows
\* of that user.
C2_OneLatestRowPerHolding ==
    \A u \in Users :
        LET result == get_all_holdings(u)
            Live(u2) == { r \in Rows : ~r.is_deleted /\ (u2 # AnyUser => r.user_id = u2) }
        IN  /\ \A j1, j2 \in result : j1.h.holding_id = j2.h.holding_id => j1 = j2
            /\ \A j \in result :
                   /\ ~j.h.is_deleted
                   /\ \A r \in Rows : (r.holding_id = j.h.holding_id /\ ~r.is_deleted)
                                          => r.id <= j.h.id
                   /\ u # AnyUser => j.h.user_id = u
            /\ u = AnyUser =>
                   \A r \in Live(u) : \E j \in result : j.h.holding_id = r.holding_id

----------------------------------------------------------------------------
(* Properties of the daily price store *)

KeysOf(ph) == { <<r.ticker, r.date>> : r \in ph }

\* C8: whatever the interleaving of add_price_history calls, the store holds at
\* most one row per (ticker, date), a row exactly for the keys written so far,
\* and that row carries the price and the capture timestamp of the write
\* committed last for its key.
C8_UpsertKeepsLastWrite ==
    /\ \A r1, r2 \in price_history :
           (r1.ticker = r2.ticker /\ r1.date = r2.date) => r1 = r2
    /\ KeysOf(price_history) = DOMAIN last_write
    /\ \A r \in price_history :
           /\ r.price = last_write[<<r.ticker, r.date>>].row.price
           /\ r.updated_at = last_write[<<r.ticker, r.date>>].row.updated_at

\* a key written again by a call that had read the clock before the write it
\* replaces: the row carries the later commit, with the earlier timestamp
C8_Witness ==
    /\ \A c \in Callers : pending[c] = NoCall
    /\ \E k \in DOMAIN last_write :
           /\ last_write[k].rewritten
           /\ last_write[k].row.updated_at = IsoNaive(0)
           /\ PriceRow(k[1], 2, k[2], IsoNaive(0)) \in price_history
    /\ now = 1
    /\ Cardinality(price_history) = 2

\* C9: a seed writes only when tracking is on, no manual price override is set
\* and the store holds no sample of its (trimmed) symbol on any date; it then
\* adds one row and changes none, and otherwise leaves the store as it was.
C9_SeedOnlyIfAbsent ==
    [][ret'.op = "seed" =>
          LET d == ret'.data
              tk == Strip(SeedSymbol(d))
              allowed == /\ d.track_price
                         /\ ~d.manual_price_override
                         /\ ~\E r \in price_history : r.ticker = tk
          IN  /\ price_history' # price_history => allowed
              /\ price_history \subseteq price_history'
              /\ Cardinality(price_history' \ price_history) <= 1
              /\ \A r \in price_history' \ price_history :
                     r.ticker = tk /\ r.price = d.current_price]_vars

\* a tracked symbol seeded after a direct capture on an earlier day: the
\* captured price is still the only sample
C9_Witness ==
    /\ ret.op = "seed"
    /\ ret.data.track_price /\ ~ret.data.manual_price_override
    /\ Strip(SeedSymbol(ret.data)) = "A"
    /\ now = 1
    /\ price_history = { PriceRow("A", 1, 0, IsoNaive(0)) }

----------------------------------------------------------------------------
(* Properties of the valuation resolver *)

CashCategory(category) == category \in {"cash", "Cash", " cash ", " Cash "}

Blank(symbol) == symbol \in {"", " "}

\* C10: the value is the value override when one is set (0 included); else
\* shares x stored current price for a cash-equivalent holding or one with the
\* manual price override flag, whatever historical price is supplied; else
\* shares x the historical price when one is supplied and shares x the stored
\* current price when none is.
C10_ValuationPrecedence ==
    valuation.done =>
        LET h == valuation.holding
            p == valuation.historical_price
            cash == CashCategory(h.category) \/ (Blank(h.ticker) /\ Blank(h.lookup))
        IN  /\ h.value_override # None => valuation.value = h.value_override
            /\ (h.value_override = None /\ (cash \/ h.manual_price_override)) =>
                   valuation.value = h.shares * h.current_price
            /\ (h.value_override = None /\ ~cash /\ ~h.manual_price_override /\ p # None) =>
                   valuation.value = h.shares * p
            /\ (h.value_override = None /\ ~cash /\ ~h.manual_price_override /\ p = None) =>
                   valuation.value = h.shares * h.current_price

\* a manually priced holding valued at its stored price although a different
\* historical price was supplied
C10_Witness ==
    /\ valuation.done
    /\ valuation.holding.value_override = None
    /\ valuation.holding.manual_price_override
    /\ valuation.holding.category = "Stock" /\ valuation.holding.lookup = "A"
    /\ valuation.historical_price = 3
    /\ valuation.value = 10

----------------------------------------------------------------------------
(* Properties of the reconstructors *)

\* the latest non-deleted version of every logical id, of all users
ActiveHoldings ==
    { r \in Rows : /\ ~r.is_deleted
                   /\ \A y \in Rows : (y.holding_id = r.holding_id /\ ~y.is_deleted)
                                          => y.id <= r.id }

\* the prices the claim allows for a symbol in a bucket, given the samples of
\* the symbol in that bucket and their write timestamps (None: no sample)
AllowedPrices(symbol, samples, written) ==
    IF symbol = "" \/ samples = {} THEN {None}
    ELSE { r.price : r \in { x \in samples :
                               \A y \in samples : written[y] <= written[x] } }

\* the totals the claim allows for a bucket: every active holding valued once,
\* at an allowed price of its normalised lookup symbol
AllowedTotals(samplesOf, written) ==
    LET symbols == { _normalize_symbol(h.lookup) : h \in ActiveHoldings }
        choices == { f \in [symbols -> {None} \cup { r.price : r \in DOMAIN written }] :
                       \A sy \in symbols : f[sy] \in AllowedPrices(sy, samplesOf[sy], written) }
    IN  { SumOver(ActiveHoldings, [h \in ActiveHoldings |->
              _calculate_holding_value(h, f[_normalize_symbol(h.lookup)])]) : f \in choices }

\* C11 (as claimed): every bucket of a daily or hourly reconstruction carries the
\* sum, over the active holdings, of the holding's value at the latest-written
\* sample of its normalised lookup symbol in that very bucket (the sample's
\* calendar date, resp. its truncated timestamp), and at the stored current
\* price when the bucket has no sample of the symbol.
C11_BucketTotalIsSumOverActive ==
    /\ Succeeded("portfolio_history") =>
           \A i \in 1 .. Len(ret.result) :
               LET b == ret.result[i].bucket
                   samplesOf == [sy \in { _normalize_symbol(h.lookup) : h \in ActiveHoldings } |->
                                    { r \in price_history :
                                        _normalize_symbol(r.ticker) = sy /\ r.date = b }]
                   written == [r \in price_history |-> r.updated_at]
               IN  ret.result[i].value \in AllowedTotals(samplesOf, written)
    /\ Succeeded("portfolio_history_hourly") =>
           \A i \in 1 .. Len(ret.result) :
               LET b == ret.result[i].bucket
                   samplesOf == [sy \in { _normalize_symbol(h.lookup) : h \in ActiveHoldings } |->
                                    { r \in price_history_hourly :
                                        _normalize_symbol(r.ticker) = sy /\ r.timestamp = b }]
                   written == [r \in price_history_hourly |-> r.timestamp]
               IN  ret.result[i].value \in AllowedTotals(samplesOf, written)

----------------------------------------------------------------------------
(* Properties of the movement calculator and of the snapshot store *)

\* the active holdings of a user
ActiveOf(user_id) == { h \in ActiveHoldings : h.user_id = user_id }

\* the live prices of a holding: its stored current price, or for a holding
\* priced from the history the price of a latest sample of its lookup symbol
LivePrices(h) ==
    LET samples == { r \in price_history : r.ticker = h.lookup }
        cash == CashCategory(h.category) \/ (Blank(h.ticker) /\ Blank(h.lookup))
    IN  IF h.manual_price_override \/ cash \/ samples = {} THEN { h.current_price }
        ELSE { r.price : r \in { x \in samples :
                                   \A y \in samples : y.updated_at <= x.updated_at } }

\* the live totals of a user: every active holding of the user counted once
LiveTotals(user_id) ==
    LET mine == ActiveOf(user_id)
        prices == UNION { LivePrices(h) : h \in mine }
    IN  { SumOver(mine, [h \in mine |-> h.shares * f[h]]) :
            f \in { g \in [mine -> prices] : \A h \in mine : g[h] \in LivePrices(h) } }

TotalContribution(user_id) ==
    SumOver(ActiveOf(user_id), [h \in ActiveOf(user_id) |-> h.contribution])

NoSnapshotOf(user_id) == \A sn \in Snapshots : sn.user_id # user_id

\* C12 (as claimed): a movement of a user without snapshots returns the live
\* total of the user's active holdings as currentValue and two points, a
\* baseline point followed by the 'now' point; with the single active holding
\* (shares 10, current price 5, contribution 40) it returns currentValue 50,
\* change 10 and changePercent 25.
C12_ZeroSnapshotMovement ==
    (Succeeded("movement") /\ NoSnapshotOf(ret.data.user_id)) =>
        LET r == ret.result
            mine == ActiveOf(ret.data.user_id)
        IN  /\ r.current_value \in LiveTotals(ret.data.user_id)
            /\ Len(r.points) = 2
            /\ r.points[Len(r.points)] =
                   [timestamp |-> Truncate(now), value |-> r.current_value]
            /\ (/\ Cardinality(mine) = 1
                /\ \A h \in mine : /\ h.shares = 10 /\ h.current_price = 5
                                   /\ h.contribution = 40
                                   /\ LivePrices(h) = {5}) =>
                   /\ r.current_value = 50
                   /\ r.change = 10
                   /\ \E q \in r.change_percent : q.num = 25 * q.den

\* C13 (as claimed): the points of every movement are in strictly increasing
\* order of timestamp, and the last one is the 'now' point: it bears the time of
\* the call and the live currentValue.
C13_PointsChronologicalNowLast ==
    Succeeded("movement") =>
        LET points == ret.result.points
        IN  /\ \A i, j \in DOMAIN points : i < j => points[i].timestamp < points[j].timestamp
            /\ points[Len(points)] =
                   [timestamp |-> Truncate(now), value |-> ret.result.current_value]

\* C14 (as claimed): change is currentValue minus the total contribution and
\* changePercent is change / total contribution x 100, the value and the
\* contribution summed over the active holdings of the user, each once; the
\* percentage is null exactly when the total contribution is zero.
C14_ChangeAgainstContribution ==
    Succeeded("movement") =>
        LET r == ret.result
            total == TotalContribution(ret.data.user_id)
        IN  /\ r.current_value \in LiveTotals(ret.data.user_id)
            /\ r.change = r.current_value - total
            /\ (r.change_percent = Nothing) <=> (total = 0)
            /\ \A q \in r.change_percent : q.num * total = r.change * 100 * q.den

\* C15: a step never removes or changes a stored snapshot; only
\* add_portfolio_snapshot adds one, exactly one per call, at the end.
C15_SnapshotsAppendOnly ==
    [][/\ Len(portfolio_snapshots') >= Len(portfolio_snapshots)
       /\ \A i \in 1 .. Len(portfolio_snapshots) :
              portfolio_snapshots'[i] = portfolio_snapshots[i]
       /\ ret'.op = "add_snapshot" =>
              /\ Len(portfolio_snapshots') = Len(portfolio_snapshots) + 1
              /\ portfolio_snapshots'[Len(portfolio_snapshots')].user_id = ret'.data.user_id
       /\ ret'.op # "add_snapshot" => portfolio_snapshots' = portfolio_snapshots]_vars

\* two captures of one user within one second, taken on different ledgers:
\* both rows are kept, each with its own totals
C15_Witness ==
    /\ ret.op = "add_snapshot" /\ ret.result = 2
    /\ Len(portfolio_snapshots) = 2
    /\ portfolio_snapshots[1].user_id = portfolio_snapshots[2].user_id
    /\ portfolio_snapshots[1].captured_at = portfolio_snapshots[2].captured_at
    /\ portfolio_snapshots[1].total_value = 50
    /\ portfolio_snapshots[2].total_value = 0

\* the versions two callers have inserted under one logical id
BothInserted(c1, c2) ==
    /\ c1 # c2
    /\ updaters[c1].pc \in {"seed", "done"}
    /\ updaters[c2].pc \in {"seed", "done"}
    /\ updaters[c1].holding_id = updaters[c2].holding_id

\* the stored row a caller's update is answered with carries the caller's data
StoredAs(u) ==
    /\ u.result \in 1 .. Len(holdings)
    /\ LET row == holdings[u.result]
       IN  /\ row.id = u.result
           /\ row.holding_id = u.holding_id
           /\ row.account_type = u.data.account_type
           /\ row.lookup = u.data.lookup
           /\ row.shares = u.data.shares
           /\ row.current_price = u.data.current_price
           /\ row.contribution = Contribution(u.data)

\* C16: whenever two callers have both inserted their update of one logical
\* id, however their reads and inserts interleaved, the two versions are stored
\* under distinct row ids with that logical id, each with its caller's data,
\* and the listing shows of that holding no version but the one of the greater
\* row id (and shows that one unless the holding was deleted since).
C16_ConcurrentUpdatesKeepBoth ==
    \A c1, c2 \in Callers :
        BothInserted(c1, c2) =>
            LET u1 == updaters[c1]
                u2 == updaters[c2]
                greater == IF u1.result > u2.result THEN u1.result ELSE u2.result
                listed == { j.h : j \in { x \in get_all_holdings(AnyUser) :
                                            x.h.holding_id = u1.holding_id } }
            IN  /\ u1.result # u2.result
                /\ StoredAs(u1) /\ StoredAs(u2)
                /\ listed \subseteq { holdings[greater] }
                /\ ~holdings[greater].is_deleted => listed = { holdings[greater] }

\* both callers read the logical id before either inserted, with different
\* data, and both have returned
C16_Witness ==
    /\ BothInserted(1, 2)
    /\ updaters[1].pc = "done" /\ updaters[2].pc = "done"
    /\ updaters[1].rows_at_read = updaters[2].rows_at_read
    /\ updaters[1].data # updaters[2].data
    /\ updaters[1].result > updaters[2].result
    /\ ~holdings[updaters[1].result].is_deleted

\* C17 (as claimed): the history of a logical id lists every version stored
\* under it, deleted ones included, each once, in strictly decreasing order of
\* row id.
C17_HistoryNewestFirst ==
    Succeeded("history") =>
        LET history == ret.result
        IN  /\ { history[i] : i \in DOMAIN history } = get_holding_history(ret.id)
            /\ Len(history) = Cardinality(get_holding_history(ret.id))
            /\ \A i, j \in DOMAIN history : i < j => history[i].id > history[j].id

HourlyKeyOf(r) == <<r.ticker, Second(r.timestamp)>>

\* C18: a write to the hourly store leaves exactly one row for the ticker and
\* the second of the timestamp, stamped with that second and holding the price
\* written, and leaves every row of another ticker or second as it was; the
\* store never holds two rows of one ticker and second.
C18_HourlyKeyedBySecond ==
    [][/\ \A r1, r2 \in price_history_hourly' :
              HourlyKeyOf(r1) = HourlyKeyOf(r2) => r1 = r2
       /\ ret'.op = "add_price_hourly" =>
              LET key == <<ret'.data.ticker, Second(ret'.data.timestamp)>>
              IN  /\ { r \in price_history_hourly' : HourlyKeyOf(r) = key } =
                         { HourlyRow(ret'.data.ticker, ret'.data.price,
                                     Truncate(ret'.data.timestamp)) }
                  /\ { r \in price_history_hourly' : HourlyKeyOf(r) # key } =
                         { r \in price_history_hourly : HourlyKeyOf(r) # key }]_vars

\* a write whose timestamp has a sub-second part has replaced another price
\* held for its second, beside a row of the same ticker in another second
C18_Witness ==
    /\ ret.op = "add_price_hourly"
    /\ ret.data.timestamp # Truncate(ret.data.timestamp)
    /\ ret.data.previous # {} /\ ret.data.price \notin ret.data.previous
    /\ HourlyPricesAt(ret.data.ticker, ret.data.timestamp) = { ret.data.price }
    /\ Cardinality({ r \in price_history_hourly : r.ticker = ret.data.ticker }) = 2

\* the symbol of a payload: its lookup symbol or, when that is blank, its
\* ticker, without surrounding blanks
AnchorSymbol(data) == IF Blank(data.lookup) THEN Strip(data.ticker) ELSE Strip(data.lookup)

\* C19 (as claimed): when create_holding or update_holding returns for a
\* payload that is price-tracked, not manually price-overridden and has a
\* non-blank symbol, the daily store holds a sample of that symbol; if it held
\* none before the call, the call has added exactly one row, of that symbol and
\* priced at the payload's current price.
C19_TrackedHoldingHasAnchor ==
    [][(/\ ret'.op \in {"create", "update"} /\ ret'.status = "ok"
        /\ ret'.data.track_price /\ ~ret'.data.manual_price_override
        /\ AnchorSymbol(ret'.data) # "") =>
           LET symbol == AnchorSymbol(ret'.data)
           IN  /\ \E r \in price_history' : r.ticker = symbol
               /\ (\A r \in price_history : r.ticker # symbol) =>
                      \E r \in price_history' :
                          /\ r.ticker = symbol /\ r.price = ret'.data.current_price
                          /\ price_history' = price_history \cup {r}
                          /\ r \notin price_history]_vars

\* a list holds the n most recent of the samples, most recent first: it has
\* min(n, number of samples) entries, all of them samples, in strictly
\* decreasing order of time, and no sample left out is later than a listed one
MostRecentFirst(history, samples, time, n) ==
    /\ Len(history) = IF n < Cardinality(samples) THEN n ELSE Cardinality(samples)
    /\ \A i \in DOMAIN history : history[i] \in samples
    /\ \A i, j \in DOMAIN history : i < j => time[history[i]] > time[history[j]]
    /\ \A i \in DOMAIN history :
           \A x \in samples :
               (\A j \in DOMAIN history : history[j] # x) => time[x] < time[history[i]]

\* C20 (as claimed): a bounded read of the daily store and one of the hourly
\* store each return the n most recent samples of the ticker (all of them if
\* fewer), most recent first.
C20_BoundedReadsMostRecentFirst ==
    /\ Succeeded("price_history") =>
           LET samples == { [date |-> r.date, price |-> r.price] :
                              r \in { x \in price_history : x.ticker = ret.data.ticker } }
           IN  MostRecentFirst(ret.result, samples, [x \in samples |-> x.date], ret.id)
    /\ Succeeded("price_history_hourly") =>
           LET samples == { [timestamp |-> r.timestamp, price |-> r.price] :
                              r \in { x \in price_history_hourly :
                                        x.ticker = ret.data.ticker } }
           IN  MostRecentFirst(ret.result, samples, [x \in samples |-> x.timestamp], ret.id)

\* the series and the per-account-type series of the holdings a user owns
OwnHistories(window, granularity, user_id, t) ==
    LET own == _get_holdings_snapshot(user_id)
        daily == _get_price_rows(window, t)
        hourly == _get_price_rows_hourly(window, t)
    IN  IF granularity = "hour"
        THEN IF hourly = {} THEN { [history |-> <<>>, account_type_history |-> <<>>] }
             ELSE { [history |-> LastN(HourlyTotals(own, m), window),
                     account_type_history |-> LastNEach(AccountTotals(own, m), window)] :
                      m \in _build_price_map_hourly(hourly) }
        ELSE IF daily = {} THEN { [history |-> <<>>, account_type_history |-> <<>>] }
             ELSE { [history |-> LastN(DailyTotals(own, m), window),
                     account_type_history |-> LastNEach(AccountTotals(own, m), window)] :
                      m \in _build_price_map(daily) }

\* C21 (as claimed): the history endpoint answers a user with the series and
\* the per-account-type series that value the holdings this user owns and no
\* other, so that holdings of other users do not change the answer.
C21_HistoryOfOwnHoldingsOnly ==
    ret.op = "api_portfolio_history" =>
        /\ ret.status = "ok"
        /\ [history |-> ret.result.history,
            account_type_history |-> ret.result.account_type_history]
               \in OwnHistories(ret.id, ret.data.granularity, ret.data.user_id, now)

\* C22 (as claimed): no two stored snapshots have the same user and the same
\* captured-at.
C22_SnapshotsKeyedByUserAndTime ==
    \A i, j \in 1 .. Len(portfolio_snapshots) :
        (/\ portfolio_snapshots[i].user_id = portfolio_snapshots[j].user_id
         /\ portfolio_snapshots[i].captured_at = portfolio_snapshots[j].captured_at) => i = j

\* the versions that are current: of every logical id, the version of greatest
\* row id among those not deleted
CurrentVersions ==
    { r \in Rows : /\ ~r.is_deleted
                   /\ \A r2 \in Rows :
                          (r2.holding_id = r.holding_id /\ ~r2.is_deleted) => r2.id <= r.id }

\* C23: in every state of the ledger the versions selected for enrichment
\* (get_all_holdings) and for reconstruction (_get_holdings_snapshot) are the
\* current versions, and the backfill targets (get_active_holdings) are the
\* current versions that are price-tracked and have a non-blank lookup symbol.
C23_SameLatestVersionRule ==
    LET ids(rows) == { r.id : r \in rows }
    IN  /\ { j.h.id : j \in get_all_holdings(AnyUser) } = ids(CurrentVersions)
        /\ ids(_get_holdings_snapshot(AnyUser)) = ids(CurrentVersions)
        /\ ids(get_active_holdings(AnyUser)) =
               ids({ r \in CurrentVersions : r.track_price /\ ~Blank(r.lookup) })

\* a ledger with a superseded version that is not deleted and a current
\* version that is no backfill target
C23_Witness ==
    /\ \E r \in Rows : ~r.is_deleted /\ r \notin CurrentVersions
                        /\ r.track_price /\ ~Blank(r.lookup)
    /\ get_active_holdings(AnyUser) # {}
    /\ get_active_holdings(AnyUser) # _get_holdings_snapshot(AnyUser)

\* the totals of a set of active holdings in a bucket when every holding is
\* joined to the samples of the bucket whose normalised ticker equals its
\* normalised lookup symbol
JoinedTotals(owned, samplesOf, written) ==
    LET symbols == { _normalize_symbol(h.lookup) : h \in owned }
        choices == { f \in [symbols -> {None} \cup { r.price : r \in DOMAIN written }] :
                       \A sy \in symbols : f[sy] \in AllowedPrices(sy, samplesOf[sy], written) }
    IN  { SumOver(owned, [h \in owned |->
              _calculate_holding_value(h, f[_normalize_symbol(h.lookup)])]) : f \in choices }

\* the daily, resp. hourly, samples of each normalised symbol in a bucket
DailySamplesOf(b) ==
    [sy \in { _normalize_symbol(h.lookup) : h \in ActiveHoldings } |->
        { r \in price_history : _normalize_symbol(r.ticker) = sy /\ r.date = b }]

HourlySamplesOf(b) ==
    [sy \in { _normalize_symbol(h.lookup) : h \in ActiveHoldings } |->
        { r \in price_history_hourly : _normalize_symbol(r.ticker) = sy /\ r.timestamp = b }]

\* C24 (as claimed): in the daily and hourly reconstruction of the portfolio
\* total and of the per-account-type totals alike, a holding is valued in a
\* bucket at a sample of that bucket whenever the normalised ticker of the
\* sample equals the normalised lookup symbol of the holding.
C24_SymbolsNormalisedOnBothSides ==
    LET OfType(a) == { h \in ActiveHoldings : h.account_type = a }
        dailyWritten == [r \in price_history |-> r.updated_at]
        hourlyWritten == [r \in price_history_hourly |-> r.timestamp]
    IN  /\ Succeeded("portfolio_history") =>
               \A i \in 1 .. Len(ret.result) :
                   ret.result[i].value \in
                       JoinedTotals(ActiveHoldings, DailySamplesOf(ret.result[i].bucket),
                                    dailyWritten)
        /\ Succeeded("account_type_history") =>
               \A a \in DOMAIN ret.result : \A i \in 1 .. Len(ret.result[a]) :
                   ret.result[a][i].value \in
                       JoinedTotals(OfType(a), DailySamplesOf(ret.result[a][i].bucket),
                                    dailyWritten)
        /\ Succeeded("portfolio_history_hourly") =>
               \A i \in 1 .. Len(ret.result) :
                   ret.result[i].value \in
                       JoinedTotals(ActiveHoldings, HourlySamplesOf(ret.result[i].bucket),
                                    hourlyWritten)
        /\ Succeeded("account_type_history_hourly") =>
               \A a \in DOMAIN ret.result : \A i \in 1 .. Len(ret.result[a]) :
                   ret.result[a][i].value \in
                       JoinedTotals(OfType(a), HourlySamplesOf(ret.result[a][i].bucket),
                                    hourlyWritten)

\* the n greatest of a set of bucket keys
GreatestN(keys, n) == { k \in keys : Cardinality({ k2 \in keys : k2 > k }) < n }

Buckets(history) == { history[i].bucket : i \in 1 .. Len(history) }

\* C25 (as claimed, the cut to the N most recent buckets apart): the buckets
\* of a reconstruction are the bucket keys (date of a daily sample, timestamp
\* of an hourly one) of the price rows of the window, of whatever ticker: a
\* key without a price row has no entry, and without price rows in the window
\* the output is empty.
C25_SparseBuckets ==
    /\ Succeeded("portfolio_history") =>
           LET keys == { r.date : r \in { x \in price_history : x.date >= Day(now) - ret.id } }
           IN  Buckets(ret.result) = GreatestN(keys, ret.id)
    /\ Succeeded("portfolio_history_hourly") =>
           LET keys == { r.timestamp : r \in _get_price_rows_hourly(ret.id, now) }
           IN  Buckets(ret.result) = GreatestN(keys, ret.id)

\* a series is strictly ascending by bucket key and holds the entries of the
\* n greatest of the keys, at most n
CutToGreatest(history, keys, n) ==
    /\ \A i, j \in 1 .. Len(history) : i < j => history[i].bucket < history[j].bucket
    /\ Len(history) <= n
    /\ Buckets(history) = GreatestN(keys, n)

\* C26 (as claimed): for every requested N >= 0 the total series and every
\* per-account-type series is strictly ascending by bucket key and holds at most
\* N entries, those of the N greatest bucket keys of the window.
C26_CutToRequestedBuckets ==
    LET dailyKeys == { PriceDate(r.updated_at) : r \in _get_price_rows(ret.id, now) }
        hourlyKeys == { r.timestamp : r \in _get_price_rows_hourly(ret.id, now) }
    IN  /\ Succeeded("portfolio_history") => CutToGreatest(ret.result, dailyKeys, ret.id)
        /\ Succeeded("account_type_history") =>
               \A a \in DOMAIN ret.result : CutToGreatest(ret.result[a], dailyKeys, ret.id)
        /\ Succeeded("portfolio_history_hourly") =>
               CutToGreatest(ret.result, hourlyKeys, ret.id)

\* the snapshots of a user captured at or after the start of a window
SnapshotsOfWindow(user_id, start) ==
    { sn \in Snapshots : sn.user_id = user_id /\ \A st \in start : sn.captured_at >= st }

\* the latest snapshots among a set of them
LatestOf(snaps) ==
    { sn \in snaps : \A other \in snaps : other.captured_at <= sn.captured_at }

\* the lists of snapshots of a user a movement of a range includes, by the
\* claim: those of the window in ascending order or, if there are none, the
\* latest one of the user
IncludedLists(user_id, start) ==
    LET since == SnapshotsOfWindow(user_id, start)
    IN  IF since # {}
        THEN { [i \in DOMAIN s |-> s[i]] :
                 s \in AscendingOrders(since, [sn \in since |-> sn.captured_at]) }
        ELSE { <<sn>> : sn \in LatestOf({ sn \in Snapshots : sn.user_id = user_id }) }

\* the snapshots of a user a movement prepends to an included list, by the
\* claim: the latest one captured before the start, when the earliest
\* included one is after the start
PrependedSnapshots(user_id, start, included) ==
    IF \E st \in start : included[1].captured_at > st
    THEN LatestOf({ sn \in Snapshots :
                      sn.user_id = user_id /\ \E st \in start : sn.captured_at < st })
    ELSE {}

\* C27: the points of a movement, the 'now' point apart, are the included
\* snapshots of the user in ascending order, preceded by the latest snapshot
\* of the user before the start of the window exactly when the range has a
\* start, the earliest included snapshot is after it and such a snapshot
\* exists; no other snapshot, in particular none of another user, is a point.
C27_BaselinePrepended ==
    Succeeded("movement") =>
        LET user_id == ret.data.user_id
            start == _resolve_range_start(ret.data.range, now)
            AsPoints(s) == [i \in DOMAIN s |->
                               [timestamp |-> s[i].captured_at, value |-> s[i].total_value]]
            now_point == [timestamp |-> Truncate(now), value |-> ret.result.current_value]
            Expected(s) == \/ ret.result.points = AsPoints(s)
                           \/ ret.result.points = Append(AsPoints(s), now_point)
            included == IncludedLists(user_id, start)
        IN  IF included = {} THEN ret.result.points = <<now_point>>
            ELSE \E s \in included :
                    LET prepended == PrependedSnapshots(user_id, start, s)
                    IN  IF prepended = {} THEN Expected(s)
                        ELSE \E p \in prepended : Expected(<<p>> \o s)

\* a movement of a range with a start whose first point is a snapshot taken
\* before the start, followed by a snapshot of the window
C27_Witness ==
    /\ Succeeded("movement")
    /\ ret.data.range = "7d"
    /\ \E s \in IncludedLists(ret.data.user_id, _resolve_range_start("7d", now)) :
           PrependedSnapshots(ret.data.user_id, _resolve_range_start("7d", now), s) # {}
    /\ Len(ret.result.points) >= 2
    /\ \A st \in _resolve_range_start("7d", now) :
           ret.result.points[1].timestamp < st /\ ret.result.points[2].timestamp > st

\* C28: updates never transfer ownership: all versions of one logical id
\* carry the same owning user id, and after an update of a holding that is
\* listed for its owner the listing of that owner still holds the logical id.
C28_UpdateKeepsOwner ==
    /\ \A r1 \in Rows, r2 \in Rows :
           r1.holding_id = r2.holding_id => r1.user_id = r2.user_id
    /\ Succeeded("update") =>
           LET old == holdings[ret.id]
           IN  \E j \in get_all_holdings(old.user_id) : j.h.holding_id = old.holding_id

\* C29: a seed never replaces a sample written by add_price_history: the step
\* that commits the write of a seed leaves the price of every row the store
\* already holds as it is.
C29_SeedNeverReplacesSample ==
    [][(\E c \in Callers : updaters[c].pc = "seed_write" /\ updaters'[c].pc = "idle")
          => \A r \in price_history :
                 \E r2 \in price_history' :
                     r2.ticker = r.ticker /\ r2.date = r.date /\ r2.price = r.price]_vars

\* the sum of the values enrichment reports for the listed holdings
SumOfEnrichedValues(rows) == SumOver(rows, [j \in rows |-> EnrichedValue(j)])

\* C30: the current value of a movement, and the total value of the snapshot
\* a capture stores, is the sum over the active holdings of the value that
\* enrichment reports for each: the value override when set, otherwise shares
\* times the effective price.
C30_TotalIsSumOfEnrichedValues ==
    /\ Succeeded("movement") =>
           ret.result.current_value =
               SumOfEnrichedValues(get_all_holdings(ret.data.user_id))
    /\ Succeeded("add_snapshot") =>
           portfolio_snapshots[ret.result].total_value =
               SumOfEnrichedValues(get_all_holdings(AnyUser))

====
